---- MODULE Spec2Model ----
(***************************************************************************)
(* Model of ebeam-tools: the Calibrator (click collection, homography     *)
(* solving, fixed-point quantization, replay validation, push to driver   *)
(* and X) and the X11 calibration GUI that drives it.                     *)
(*                                                                         *)
(* Arithmetic: the real-valued solve done by GSL on doubles is modelled   *)
(* on exact rationals <<n, d>> (d > 0, lowest terms); the long long H     *)
(* coefficients are integers.  All values of the model stay far below     *)
(* 2^31, so no 64-bit operation of the code can overflow here.            *)
(***************************************************************************)
EXTENDS Integers, Sequences, FiniteSets, TLC

(***************************************************************************)
(* Program constants                                                       *)
(***************************************************************************)
SUCCESS == 1
FAILURE == 0
THR_DOUBLECLICK == 16
NUM_POINTS == 4
NUM_BLOCKS == 8
UL == 0
LL == 1
UR == 2
LR == 3
PRECISION == 12
time_step == 100
max_time == 15000

(***************************************************************************)
(* Bounds of the model                                                     *)
(***************************************************************************)
\* precisions 0..MaxPrecision are tried (the program default, 12, needs 10^12)
MaxPrecision == 2
\* width and height first reported by the X server
ScreenW == 8
ScreenH == 8
\* the user lets at most MaxIdleTicks timer ticks pass between two clicks
MaxIdleTicks == 1
\* the X server changes the screen size at most MaxResizes times in a run
MaxResizes == 1
\* add_click calls a caller of the API may make beyond the NUM_POINTS-th slot
MaxOverrun == 1
\* calls a caller of the API makes in one run
MaxCalls == 5
\* runs of ebeam_state one after the other
MaxRuns == 2

\* largest numerator and denominator of the values given to the numerical
\* routines
MaxNum == 12
MaxDen == 6
\* largest screen coordinate of the correspondences solved at full precision
MaxQuot == 200

(***************************************************************************)
(* Integer helpers: C semantics                                            *)
(***************************************************************************)
Abs(a) == IF a < 0 THEN -a ELSE a

Sign(a) == IF a < 0 THEN -1 ELSE IF a > 0 THEN 1 ELSE 0

\* faulty division: rounds toward minus infinity
FloorDiv(a, b) == IF b < 0 THEN (-a) \div (-b) ELSE a \div b

\* C integer division: truncates toward zero (b # 0)
TruncDiv(a, b) == Sign(a) * Sign(b) * (Abs(a) \div Abs(b))

RECURSIVE Pow10(_)
Pow10(p) == IF p <= 0 THEN 1 ELSE 10 * Pow10(p - 1)

RECURSIVE GCD(_, _)
GCD(a, b) == IF b = 0 THEN a ELSE GCD(b, a % b)

(***************************************************************************)
(* Exact rationals standing for the doubles of the GSL solve               *)
(***************************************************************************)
Rat(n, d) ==
    IF n = 0 THEN <<0, 1>>
    ELSE LET g == GCD(Abs(n), Abs(d))
             s == IF d < 0 THEN -1 ELSE 1
         IN  <<s * (n \div g), s * (d \div g)>>

RInt(a) == <<a, 1>>
RZero == <<0, 1>>
RIsZero(r) == r[1] = 0
RAbs(r) == <<Abs(r[1]), r[2]>>
RLess(r, s) == r[1] * s[2] < s[1] * r[2]
RAdd(r, s) == IF s[1] = 0 THEN r ELSE Rat(r[1] * s[2] + s[1] * r[2], r[2] * s[2])
RSub(r, s) == IF s[1] = 0 THEN r ELSE Rat(r[1] * s[2] - s[1] * r[2], r[2] * s[2])
RMul(r, s) == IF r[1] = 0 \/ s[1] = 0 THEN RZero ELSE Rat(r[1] * s[1], r[2] * s[2])
RDiv(r, s) == IF r[1] = 0 THEN RZero ELSE Rat(r[1] * s[2], r[2] * s[1])

\* y, after x has been evaluated (keeps nested evaluation shallow)
Seq2(x, y) == IF x = x THEN y ELSE y

\* the function f over 1..n as a fully evaluated tuple
Eager(f) == f \o <<>>

(***************************************************************************)
(* gsl_linalg_LU_decomp / gsl_linalg_LU_solve as find_H calls them: LU    *)
(* decomposition with partial pivoting of the 8x8 system, then the solve, *)
(* which reports an error when a pivot of U is zero.                       *)
(***************************************************************************)
\* first row i >= j holding the largest |M[i][j]|
RECURSIVE PivotScan(_, _, _, _)
PivotScan(M, j, i, best) ==
    IF i > 8 THEN best
    ELSE PivotScan(M, j, i + 1,
                   IF RLess(RAbs(M[best][j]), RAbs(M[i][j])) THEN i ELSE best)

SwapAt(s, a, b, i) == IF i = a THEN s[b] ELSE IF i = b THEN s[a] ELSE s[i]

\* one column of the decomposition: pivot search, row swap, elimination
LUStep(S, j) ==
    LET piv == PivotScan(S.m, j, j + 1, j)
        M1  == Eager([i \in 1..8 |-> SwapAt(S.m, j, piv, i)])
        p1  == Eager([i \in 1..8 |-> SwapAt(S.p, j, piv, i)])
        ajj == M1[j][j]
        ElimRow(i) ==
            LET aij == RDiv(M1[i][j], ajj)
            IN  Eager([k \in 1..8 |-> IF k < j THEN M1[i][k]
                                       ELSE IF k = j THEN aij
                                       ELSE RSub(M1[i][k], RMul(aij, M1[j][k]))])
    IN  IF RIsZero(ajj)
        THEN [m |-> M1, p |-> p1]
        ELSE [m |-> Eager([i \in 1..8 |-> IF i <= j THEN M1[i] ELSE ElimRow(i)]),
              p |-> p1]

\* columns j = 0 .. N-2 in turn
gsl_linalg_LU_decomp(A) ==
    LET S0 == [m |-> A, p |-> <<1, 2, 3, 4, 5, 6, 7, 8>>]
        S1 == LUStep(S0, 1)
        S2 == LUStep(S1, 2)
        S3 == LUStep(S2, 3)
        S4 == LUStep(S3, 4)
        S5 == LUStep(S4, 5)
        S6 == LUStep(S5, 6)
    IN  Seq2(S1, Seq2(S2, Seq2(S3, Seq2(S4, Seq2(S5, Seq2(S6, LUStep(S6, 7)))))))

\* sum over k in lo..hi of row[k] * x[k - off]
RECURSIVE DotRange(_, _, _, _, _)
DotRange(row, x, off, lo, hi) ==
    IF lo > hi THEN RZero
    ELSE RAdd(RMul(row[lo], x[lo - off]), DotRange(row, x, off, lo + 1, hi))

\* L y = P b, L unit lower triangular; y holds y[1..Len(y)]
RECURSIVE ForwardSub(_, _, _)
ForwardSub(LU, pb, y) ==
    IF Len(y) = 8 THEN y
    ELSE LET i == Len(y) + 1
         IN  ForwardSub(LU, pb,
                        Append(y, RSub(pb[i], DotRange(LU[i], y, 0, 1, i - 1))))

\* U x = y; xs holds x[i+1..8]
RECURSIVE BackSub(_, _, _)
BackSub(LU, y, xs) ==
    IF Len(xs) = 8 THEN xs
    ELSE LET i  == 8 - Len(xs)
             xi == RDiv(RSub(y[i], DotRange(LU[i], xs, i, i + 1, 8)), LU[i][i])
         IN  BackSub(LU, y, <<xi>> \o xs)

singular(LU) == \E i \in 1..8 : RIsZero(LU[i][i])

\* [ok |-> FALSE] when U has a zero pivot, else [ok |-> TRUE, x |-> solution]
gsl_linalg_LU_solve(S, b) ==
    IF singular(S.m) THEN [ok |-> FALSE, x |-> <<>>]
    ELSE LET pb == Eager([i \in 1..8 |-> b[S.p[i]]])
             y  == ForwardSub(S.m, pb, <<>>)
         IN  [ok |-> TRUE, x |-> BackSub(S.m, y, <<>>)]

(***************************************************************************)
(* Calibrator::find_H and Calibrator::test_H                               *)
(***************************************************************************)
\* rows 2p, 2p+1 of A for tuple p (C index p-1)
ARow(T, r) ==
    LET t == T[(r + 1) \div 2]
        X == t.dev_X
        Y == t.dev_Y
        x == t.scr_x
        y == t.scr_y
    IN  IF r % 2 = 1
        THEN <<RInt(X), RInt(Y), RInt(1), RZero, RZero, RZero,
               RInt(-(X * x)), RInt(-(Y * x))>>
        ELSE <<RZero, RZero, RZero, RInt(X), RInt(Y), RInt(1),
               RInt(-(X * y)), RInt(-(Y * y))>>

\* faulty right-hand side: the screen y is put before the screen x
BVec_Swapped(T) ==
    Eager([r \in 1..8 |-> IF r % 2 = 1 THEN RInt(T[(r + 1) \div 2].scr_y)
                                      ELSE RInt(T[(r + 1) \div 2].scr_x)])

BVec(T) == Eager([r \in 1..8 |-> IF r % 2 = 1 THEN RInt(T[(r + 1) \div 2].scr_x)
                                           ELSE RInt(T[(r + 1) \div 2].scr_y)])

\* faulty quantization: adds 0.5 whatever the sign
Quantize_HalfUp(h, prec) ==
    TruncDiv(2 * h[1] * Pow10(prec) + h[2], 2 * h[2])

\* (long long) (h * 10^precision +/- 0.5): the cast truncates toward zero
Quantize(h, prec) ==
    LET s == Pow10(prec)
    IN  IF h[1] >= 0
        THEN TruncDiv(2 * h[1] * s + h[2], 2 * h[2])
        ELSE TruncDiv(2 * h[1] * s - h[2], 2 * h[2])

\* the matrix A of the system A h = b
AMatrix(T) == Eager([r \in 1..8 |-> ARow(T, r)])

\* H[0..7] quantized from the solution x, H[8] = 10^precision
QuantizeAll(x, prec) ==
    Eager([i \in 1..9 |-> IF i = 9 THEN Pow10(prec) ELSE Quantize(x[i], prec)])

\* find_H after the solve: H is left as it was when the solve fails
Solved(sol, prec, oldH) ==
    IF ~sol.ok THEN [ok |-> FALSE, H |-> oldH]
    ELSE [ok |-> TRUE, H |-> QuantizeAll(sol.x, prec)]

\* the kernel driver's formula on one device point
ReplayDiv(Hm, X, Y) == Hm[7] * X + Hm[8] * Y + Hm[9]
\* faulty replay: the quotient is truncated, not rounded
ReplayX_Truncated(Hm, X, Y) ==
    TruncDiv(Hm[1] * X + Hm[2] * Y + Hm[3], ReplayDiv(Hm, X, Y))

ReplayX(Hm, X, Y) ==
    TruncDiv(2 * (Hm[1] * X + Hm[2] * Y + Hm[3]) + ReplayDiv(Hm, X, Y),
             2 * ReplayDiv(Hm, X, Y))
ReplayY(Hm, X, Y) ==
    TruncDiv(2 * (Hm[4] * X + Hm[5] * Y + Hm[6]) + ReplayDiv(Hm, X, Y),
             2 * ReplayDiv(Hm, X, Y))

\* faulty test_H: checks the denominator but never compares the replayed
\* point with the screen point
RECURSIVE DivOnlyFrom(_, _, _)
DivOnlyFrom(Hm, T, p) ==
    IF p > NUM_POINTS THEN "ok"
    ELSE IF ReplayDiv(Hm, T[p].dev_X, T[p].dev_Y) = 0 THEN "div0"
         ELSE DivOnlyFrom(Hm, T, p + 1)

test_H_DivOnly(Hm, T) == DivOnlyFrom(Hm, T, 1)

\* "ok", or the reason of the first failing point: "div0" / "mismatch"
RECURSIVE TestFrom(_, _, _)
TestFrom(Hm, T, p) ==
    IF p > NUM_POINTS THEN "ok"
    ELSE LET X == T[p].dev_X
             Y == T[p].dev_Y
         IN  IF ReplayDiv(Hm, X, Y) = 0 THEN "div0"
             ELSE IF ReplayX(Hm, X, Y) # T[p].scr_x \/ ReplayY(Hm, X, Y) # T[p].scr_y
                  THEN "mismatch"
                  ELSE TestFrom(Hm, T, p + 1)

test_H(Hm, T) == TestFrom(Hm, T, 1)

(***************************************************************************)
(* long long values wider than the integers of the model: a sign and the   *)
(* decimal digits, units first (no digit for zero)                         *)
(***************************************************************************)
RECURSIVE Digits(_)
Digits(n) == IF n = 0 THEN <<>> ELSE <<n % 10>> \o Digits(n \div 10)

RECURSIVE Trim(_)
Trim(ds) ==
    IF ds = <<>> THEN ds
    ELSE IF ds[Len(ds)] = 0 THEN Trim(SubSeq(ds, 1, Len(ds) - 1)) ELSE ds

LLZero == [neg |-> FALSE, dig |-> <<>>]
LLInt(n) == [neg |-> n < 0, dig |-> Digits(Abs(n))]

\* a + b + c on digits
RECURSIVE MagAdd(_, _, _)
MagAdd(a, b, c) ==
    IF a = <<>> /\ b = <<>> THEN Digits(c)
    ELSE LET s == (IF a = <<>> THEN 0 ELSE Head(a)) + (IF b = <<>> THEN 0 ELSE Head(b)) + c
         IN  <<s % 10>> \o MagAdd(IF a = <<>> THEN a ELSE Tail(a),
                                  IF b = <<>> THEN b ELSE Tail(b), s \div 10)

\* a - b - br on digits, a >= b
RECURSIVE MagSub(_, _, _)
MagSub(a, b, br) ==
    IF a = <<>> THEN <<>>
    ELSE LET s == Head(a) - (IF b = <<>> THEN 0 ELSE Head(b)) - br
         IN  <<IF s < 0 THEN s + 10 ELSE s>>
                 \o MagSub(Tail(a), IF b = <<>> THEN b ELSE Tail(b),
                           IF s < 0 THEN 1 ELSE 0)

\* a < b on digits without leading zeros
RECURSIVE MagLessFrom(_, _, _)
MagLessFrom(a, b, i) ==
    IF i = 0 THEN FALSE
    ELSE IF a[i] # b[i] THEN a[i] < b[i]
    ELSE MagLessFrom(a, b, i - 1)

MagLess(a, b) ==
    IF Len(a) # Len(b) THEN Len(a) < Len(b) ELSE MagLessFrom(a, b, Len(a))

\* a * k + c on digits, k >= 0
RECURSIVE MagMul(_, _, _)
MagMul(a, k, c) ==
    IF a = <<>> THEN Digits(c)
    ELSE LET s == Head(a) * k + c
         IN  <<s % 10>> \o MagMul(Tail(a), k, s \div 10)

\* digits i..1 of a, with the remainder r carried in, divided by k > 0
RECURSIVE MagDivFrom(_, _, _, _)
MagDivFrom(a, k, i, r) ==
    IF i = 0 THEN <<>>
    ELSE MagDivFrom(a, k, i - 1, (r * 10 + a[i]) % k) \o <<(r * 10 + a[i]) \div k>>

MagDiv(a, k) == Trim(MagDivFrom(a, k, Len(a), 0))

LLAdd(a, b) ==
    IF a.neg = b.neg THEN [neg |-> a.neg, dig |-> MagAdd(a.dig, b.dig, 0)]
    ELSE IF MagLess(a.dig, b.dig)
         THEN [neg |-> b.neg, dig |-> Trim(MagSub(b.dig, a.dig, 0))]
         ELSE IF a.dig = b.dig THEN LLZero
         ELSE [neg |-> a.neg, dig |-> Trim(MagSub(a.dig, b.dig, 0))]

\* a * k for an int k
LLMul(a, k) ==
    IF k = 0 \/ a.dig = <<>> THEN LLZero
    ELSE [neg |-> (a.neg # (k < 0)), dig |-> MagMul(a.dig, Abs(k), 0)]

\* the q in lo..(hi - 1) with q * b <= a < (q + 1) * b on digits, given that
\* lo * b <= a < hi * b
RECURSIVE MagQuot(_, _, _, _)
MagQuot(a, b, lo, hi) ==
    IF hi - lo <= 1 THEN lo
    ELSE LET mid == (lo + hi) \div 2
         IN  IF MagLess(a, MagMul(b, mid, 0))
             THEN MagQuot(a, b, lo, mid)
             ELSE MagQuot(a, b, mid, hi)

\* (int) (a / b), b # 0: the quotient toward zero; quotients beyond MaxQuot,
\* which no screen point of the model reaches, are given as MaxQuot + 1
LLQuot(a, b) ==
    LET m == IF MagLess(a.dig, MagMul(b.dig, MaxQuot + 1, 0))
             THEN MagQuot(a.dig, b.dig, 0, MaxQuot + 1)
             ELSE MaxQuot + 1
    IN  IF a.neg = b.neg THEN m ELSE -m

\* pow(10.0, p) as long long
LLPow10(p) == [neg |-> FALSE, dig |-> [i \in 1..(p + 1) |-> IF i = p + 1 THEN 1 ELSE 0]]

\* faulty quantization: the value is rounded without being scaled
QuantizeLL_Unscaled(h, prec) ==
    LET m == IF h[1] = 0 THEN <<>>
             ELSE MagDiv(MagAdd(Digits(2 * Abs(h[1])), Digits(h[2]), 0), 2 * h[2])
    IN  [neg |-> h[1] < 0 /\ m # <<>>, dig |-> m]

\* (long long) (h * 10^prec +/- 0.5) for the solved value h
QuantizeLL(h, prec) ==
    LET top == Digits(2 * Abs(h[1]))
        m == IF top = <<>> THEN <<>>
             ELSE MagDiv(MagAdd([i \in 1..prec |-> 0] \o top, Digits(h[2]), 0), 2 * h[2])
    IN  [neg |-> h[1] < 0 /\ m # <<>>, dig |-> m]

\* find_H after the solve
SolvedLL(sol, prec) ==
    IF ~sol.ok THEN [ok |-> FALSE, H |-> <<>>]
    ELSE [ok |-> TRUE,
          H |-> Eager([i \in 1..9 |-> IF i = 9 THEN LLPow10(prec)
                                       ELSE QuantizeLL(sol.x[i], prec)])]

find_H_LL(T, prec) ==
    SolvedLL(gsl_linalg_LU_solve(gsl_linalg_LU_decomp(AMatrix(T)), BVec(T)), prec)

ReplayDivLL(Hm, X, Y) == LLAdd(LLAdd(LLMul(Hm[7], X), LLMul(Hm[8], Y)), Hm[9])

\* (int) ((2 * (ha X + hb Y + hc) + div) / (2 * div))
ReplayLL(ha, hb, hc, div, X, Y) ==
    LLQuot(LLAdd(LLMul(LLAdd(LLAdd(LLMul(ha, X), LLMul(hb, Y)), hc), 2), div),
           LLMul(div, 2))

\* one point of test_H, div being its denominator
TestPointLL(Hm, t, div) ==
    IF div.dig = <<>> THEN "div0"
    ELSE IF \/ ReplayLL(Hm[1], Hm[2], Hm[3], div, t.dev_X, t.dev_Y) # t.scr_x
            \/ ReplayLL(Hm[4], Hm[5], Hm[6], div, t.dev_X, t.dev_Y) # t.scr_y
         THEN "mismatch"
         ELSE "ok"

RECURSIVE TestFromLL(_, _, _)
TestFromLL(Hm, T, p) ==
    IF p > NUM_POINTS THEN "ok"
    ELSE LET r == TestPointLL(Hm, T[p], ReplayDivLL(Hm, T[p].dev_X, T[p].dev_Y))
         IN  IF r # "ok" THEN r ELSE TestFromLL(Hm, T, p + 1)

test_H_LL(Hm, T) == TestFromLL(Hm, T, 1)

\* find_H, then test_H, as finish calls them
TestedLL(fh, T) ==
    IF ~fh.ok THEN [stage |-> "find_H", H |-> fh.H]
    ELSE [stage |-> test_H_LL(fh.H, T), H |-> fh.H]

(***************************************************************************)
(* Inputs of the model                                                     *)
(***************************************************************************)
Near == THR_DOUBLECLICK - 1
Far == THR_DOUBLECLICK + 1

\* raw device points a motion event of the GUI run can report: the corners
\* of a square, any two of them more than the default threshold apart
DevPoints == {<<0, 0>>, <<0, Far>>, <<Far, 0>>, <<Far, Far>>}

\* device points a caller of the Calibrator API can pass: four points of one
\* line, (0,0), the two points just inside and just outside the default
\* threshold of it and one further out, and two points off that line
ApiPoints == {<<0, 0>>, <<Near, Near>>, <<Far, Far>>, <<2 * Far, 2 * Far>>,
              <<2 * Far, 0>>, <<2 * Far, 2 * THR_DOUBLECLICK>>}

\* --precision and --threshold values given on the command line
Precisions == 0..MaxPrecision
GuiPrecisions == {0, MaxPrecision}
Thresholds == {0, THR_DOUBLECLICK}

\* --zone arguments: none (full screen) or a sub-rectangle
ZoneArgs == {<<0, 0, 0, 0>>, <<1, 1, ScreenW - 2, ScreenH - 2>>}

\* sizes the X server can report
Sizes == {<<ScreenW, ScreenH>>, <<ScreenW, ScreenH + 1>>}

\* the 13 parameter files of the driver, in the order readdir returns them
ParamNames == <<"min_x", "min_y", "max_x", "max_y",
                "h1", "h2", "h3", "h4", "h5", "h6", "h7", "h8", "h9">>

\* what the environment lets set_ebeam_calibration do: "opendir": the device
\* directory cannot be opened; "open": file number `at' cannot be opened;
\* "missing": file number `at' is not in the directory; "flag": the
\* calibrated file cannot be opened
PushOutcomes == {[kind |-> "ok", at |-> 0], [kind |-> "opendir", at |-> 0],
                 [kind |-> "open", at |-> 1], [kind |-> "open", at |-> 13],
                 [kind |-> "missing", at |-> 13], [kind |-> "flag", at |-> 0]}

\* what the environment lets sync_evdev_calibration and
\* reset_evdev_calibration do: the atom XInternAtom does not find
SyncOutcomes == {"ok", "no_axis_atom", "no_float_atom", "no_ctm_atom"}

(***************************************************************************)
(* State                                                                   *)
(***************************************************************************)
VARIABLES
    precision,              \* Calibrator::precision
    threshold_doubleclick,  \* Calibrator::threshold_doubleclick
    tuples,                 \* Calibrator::tuples: num, tuple[NUM_POINTS]; spill is
                            \* the memory behind the array, written past its end
    H,                      \* Calibrator::H
    zone,                   \* Calibrator::zoned, min_x, min_y, max_x, max_y
    screen,                 \* Calibrator::screen_width, screen_height
    gui,                    \* GuiCalibratorX11 instance members
    final_step,             \* GuiCalibratorX11::final_step
    is_running,             \* GuiCalibratorX11::is_running
    xsize,                  \* size the X server reports now
    resizes,                \* number of size changes so far
    ncalls,                 \* number of calls made through the API so far
    driver,                 \* sysfs files of the kernel driver
    xprop,                  \* X input properties of the device
    pc,                     \* "start", "paused" (main in pause()), "events"
                            \* (inside timer_signal), "exited", "aborted"
    calls,                  \* the Calibrator members the last step called, in order
    ret,                    \* the add_click call of the last step, if it made one
    fin,                    \* the last finish call: result, failing stage, steps run
    stale,                  \* a stored click predates the latest size change
    file,                   \* the state file of ebeam_state: exists, text
    io,                     \* the last do_calib_io call: result, the step it ended at,
                            \* the driver file whose read ended early, handles left open
    calc                    \* a numerical routine applied to given values, and its result

vars == <<precision, threshold_doubleclick, tuples, H, zone, screen, gui,
          final_step, is_running, xsize, resizes, ncalls, driver, xprop, pc, calls, ret,
          fin, stale, file, io, calc>>

NoTuple == [dev_X |-> 0, dev_Y |-> 0, scr_x |-> 0, scr_y |-> 0]
NoRet == [op |-> "none", X |-> 0, Y |-> 0, x |-> 0, y |-> 0, slot |-> 0,
          result |-> FAILURE]
NoFin == [result |-> FAILURE, stage |-> "none", steps |-> <<>>, stale |-> FALSE]
NoFile == [exists |-> FALSE, text |-> <<>>]
NoIo == [op |-> "none", result |-> FAILURE, stage |-> "none", warned |-> FALSE,
         eof |-> 0, leaked |-> 0]
NoCalc == [fn |-> "none"]
IdentityCTM == <<RInt(1), RZero, RZero, RZero, RInt(1), RZero, RZero, RZero, RInt(1)>>

(***************************************************************************)
(* Calibrator                                                              *)
(***************************************************************************)
\* constructor: an all-zero zone means full screen
Calibrator(z, scr) ==
    IF z[1] = 0 /\ z[2] = 0 /\ z[3] = 0 /\ z[4] = 0
    THEN [zoned |-> FALSE, min_x |-> 0, min_y |-> 0,
          max_x |-> scr[1] - 1, max_y |-> scr[2] - 1]
    ELSE [zoned |-> TRUE, min_x |-> z[1], min_y |-> z[2],
          max_x |-> z[3], max_y |-> z[4]]

\* faulty reset_tuples: leaves the count as it is
reset_tuples_Noop(tup) == tup

reset_tuples(tup) == [tup EXCEPT !.num = 0]

\* tuples.tuple[i], C index; i >= NUM_POINTS is behind the array
TupleAt(tup, i) ==
    IF i < NUM_POINTS THEN tup.tuple[i + 1] ELSE tup.spill[i - NUM_POINTS + 1]

\* faulty double-click detection: compares with the last stored click only
IsDoubleClick_LastOnly(tup, thr, X, Y) ==
    /\ thr > 0
    /\ tup.num > 0
    /\ Abs(X - TupleAt(tup, tup.num - 1).dev_X) <= thr
    /\ Abs(Y - TupleAt(tup, tup.num - 1).dev_Y) <= thr

\* faulty double-click detection: a threshold of 0 is not taken as "off"
IsDoubleClick_NeverOff(tup, thr, X, Y) ==
    /\ tup.num > 0
    /\ \E i \in 0..(tup.num - 1) :
          /\ Abs(X - TupleAt(tup, i).dev_X) <= thr
          /\ Abs(Y - TupleAt(tup, i).dev_Y) <= thr

\* the double-click detection of add_click
IsDoubleClick(tup, thr, X, Y) ==
    /\ thr > 0
    /\ tup.num > 0
    /\ \E i \in 0..(tup.num - 1) :
          /\ Abs(X - TupleAt(tup, i).dev_X) <= thr
          /\ Abs(Y - TupleAt(tup, i).dev_Y) <= thr

\* tuples.tuple[num] = t; tuples.num++ (no check of num against NUM_POINTS)
StoreTuple(tup, t) ==
    LET n == tup.num
        k == n - NUM_POINTS + 1
    IN  IF n < NUM_POINTS
        THEN [tup EXCEPT !.tuple[n + 1] = t, !.num = n + 1]
        ELSE [tup EXCEPT !.spill = IF k <= Len(tup.spill)
                                   THEN [tup.spill EXCEPT ![k] = t]
                                   ELSE Append(tup.spill, t),
                         !.num = n + 1]

\* faulty add_click: a rejected click is counted
add_click_CountsRejected(tup, thr, X, Y, x, y) ==
    IF IsDoubleClick(tup, thr, X, Y)
    THEN [ok |-> FALSE, tuples |-> [tup EXCEPT !.num = @ + 1]]
    ELSE [ok |-> TRUE,
          tuples |-> StoreTuple(tup, [dev_X |-> X, dev_Y |-> Y,
                                      scr_x |-> x, scr_y |-> y])]

\* [ok, tuples]
add_click(tup, thr, X, Y, x, y) ==
    IF IsDoubleClick(tup, thr, X, Y)
    THEN [ok |-> FALSE, tuples |-> tup]
    ELSE [ok |-> TRUE,
          tuples |-> StoreTuple(tup, [dev_X |-> X, dev_Y |-> Y,
                                      scr_x |-> x, scr_y |-> y])]

\* what a write of tuple t behind the array can do to H, the member that
\* follows tuples in the class: nothing, or overwrite its first words
Overrun(Hm, t) == {Hm, [Hm EXCEPT ![1] = t.dev_Y, ![2] = t.scr_y]}

RetOf(tup, r, X, Y, x, y) ==
    [op |-> "add_click", X |-> X, Y |-> Y, x |-> x, y |-> y, slot |-> tup.num,
     result |-> IF r.ok THEN SUCCESS ELSE FAILURE]

\* value written to the parameter file ParamNames[i]
ParamValue(zn, Hm, i) ==
    IF i = 1 THEN zn.min_x
    ELSE IF i = 2 THEN zn.min_y
    ELSE IF i = 3 THEN zn.max_x
    ELSE IF i = 4 THEN zn.max_y
    ELSE Hm[i - 4]

\* faulty set_ebeam_calibration: the flag is written before the parameters
set_ebeam_calibration_FlagFirst(drv, zn, Hm, po) ==
    LET Written(i) == CASE po.kind = "open"    -> i < po.at
                        [] po.kind = "missing" -> i # po.at
                        [] OTHER               -> TRUE
        files == [i \in 1..13 |-> IF Written(i) THEN ParamValue(zn, Hm, i)
                                  ELSE drv.params[i]]
    IN  IF po.kind = "opendir" THEN [ok |-> FALSE, driver |-> drv]
        ELSE [ok |-> po.kind = "ok",
              driver |-> [calibrated |-> IF po.kind = "flag" THEN drv.calibrated ELSE 1,
                          params |-> files]]

\* [ok, driver]
set_ebeam_calibration(drv, zn, Hm, po) ==
    LET Written(i) == CASE po.kind = "open"    -> i < po.at
                        [] po.kind = "missing" -> i # po.at
                        [] OTHER               -> TRUE
        files == [i \in 1..13 |-> IF Written(i) THEN ParamValue(zn, Hm, i)
                                  ELSE drv.params[i]]
    IN  IF po.kind = "opendir" THEN [ok |-> FALSE, driver |-> drv]
        ELSE IF po.kind = "ok"
        THEN [ok |-> TRUE, driver |-> [calibrated |-> 1, params |-> files]]
        ELSE [ok |-> FALSE, driver |-> [drv EXCEPT !.params = files]]

\* faulty reset_ebeam_calibration: reports SUCCESS and writes nothing
reset_ebeam_calibration_Skipped(drv, canOpen) == [ok |-> TRUE, driver |-> drv]

\* [ok, driver]
reset_ebeam_calibration(drv, canOpen) ==
    IF canOpen THEN [ok |-> TRUE, driver |-> [drv EXCEPT !.calibrated = 0]]
    ELSE [ok |-> FALSE, driver |-> drv]

compute_XCTM(zn, scr) ==
    <<Rat(zn.max_x - zn.min_x + 1, scr[1]), RZero, Rat(zn.min_x, scr[1]),
      RZero, Rat(zn.max_y - zn.min_y + 1, scr[2]), Rat(zn.min_y, scr[2]),
      RZero, RZero, RInt(1)>>

\* a zone as a calibration of a sub-rectangle leaves it
SampleZone == [zoned |-> TRUE, min_x |-> 1, min_y |-> 2, max_x |-> ScreenW - 2,
               max_y |-> ScreenH - 3]

\* the X properties of the device before a run: never set, or as an
\* earlier calibration or restore of a zoned calibration left them
XProps ==
    {[axis |-> <<>>, ctm |-> IdentityCTM],
     [axis |-> <<SampleZone.min_x, SampleZone.max_x, SampleZone.min_y, SampleZone.max_y>>,
      ctm |-> compute_XCTM(SampleZone, <<ScreenW, ScreenH>>)]}

\* [ok, xprop]
sync_evdev_calibration(xp, zn, scr, so) ==
    LET axis == <<zn.min_x, zn.max_x, zn.min_y, zn.max_y>>
    IN  IF so = "no_axis_atom" THEN [ok |-> FALSE, xprop |-> xp]
        ELSE IF ~zn.zoned THEN [ok |-> TRUE, xprop |-> [xp EXCEPT !.axis = axis]]
        ELSE IF so # "ok" THEN [ok |-> FALSE, xprop |-> [xp EXCEPT !.axis = axis]]
        ELSE [ok |-> TRUE, xprop |-> [axis |-> axis, ctm |-> compute_XCTM(zn, scr)]]

\* [ok, xprop]
reset_evdev_calibration(xp, so) ==
    IF so = "no_axis_atom" THEN [ok |-> FALSE, xprop |-> xp]
    ELSE IF so # "ok" THEN [ok |-> FALSE, xprop |-> [xp EXCEPT !.axis = <<>>]]
    ELSE [ok |-> TRUE, xprop |-> [axis |-> <<>>, ctm |-> IdentityCTM]]

\* faulty targets: stored in the order UL, UR, LL, LR
Targets_RowOrder(lo_x, lo_y, hi_x, hi_y) ==
    LET delta_x == TruncDiv(hi_x - lo_x + 1, NUM_BLOCKS)
        delta_y == TruncDiv(hi_y - lo_y + 1, NUM_BLOCKS)
    IN  [x |-> <<lo_x + delta_x, hi_x - delta_x, lo_x + delta_x, hi_x - delta_x>>,
         y |-> <<lo_y + delta_y, lo_y + delta_y, hi_y - delta_y, hi_y - delta_y>>]

\* faulty targets: the blocks are an eighth of max - min
Targets_Extent(lo_x, lo_y, hi_x, hi_y) ==
    LET delta_x == TruncDiv(hi_x - lo_x, NUM_BLOCKS)
        delta_y == TruncDiv(hi_y - lo_y, NUM_BLOCKS)
    IN  [x |-> <<lo_x + delta_x, lo_x + delta_x, hi_x - delta_x, hi_x - delta_x>>,
         y |-> <<lo_y + delta_y, hi_y - delta_y, lo_y + delta_y, hi_y - delta_y>>]

\* target_x[], target_y[] in the order UL, LL, UR, LR
Targets(lo_x, lo_y, hi_x, hi_y) ==
    LET delta_x == TruncDiv(hi_x - lo_x + 1, NUM_BLOCKS)
        delta_y == TruncDiv(hi_y - lo_y + 1, NUM_BLOCKS)
    IN  [x |-> <<lo_x + delta_x, lo_x + delta_x, hi_x - delta_x, hi_x - delta_x>>,
         y |-> <<lo_y + delta_y, hi_y - delta_y, lo_y + delta_y, hi_y - delta_y>>]

\* the correspondence sets a run can hand to find_H: device points pts clicked
\* on the targets of zone zn, in the order UL, LL, UR, LR
TupleSets(pts, zn) ==
    LET t == Targets(zn.min_x, zn.min_y, zn.max_x, zn.max_y)
    IN  {[i \in 1..NUM_POINTS |-> [dev_X |-> q[i][1], dev_Y |-> q[i][2],
                                   scr_x |-> t.x[i], scr_y |-> t.y[i]]] :
            q \in [1..NUM_POINTS -> pts]}

Zones == {Calibrator(z, <<ScreenW, ScreenH>>) : z \in ZoneArgs}

\* the solve of find_H, A h = b by LU decomposition, evaluated once for each
\* correspondence set of the model
LUSolution ==
    [T \in UNION {TupleSets(DevPoints, zn) \cup TupleSets(ApiPoints, zn) : zn \in Zones} |->
        gsl_linalg_LU_solve(gsl_linalg_LU_decomp(AMatrix(T)), BVec(T))]

\* [ok, H]
find_H(T, prec, oldH) == Solved(LUSolution[T], prec, oldH)

\* faulty return value: a failure of sync_evdev_calibration is not reported
FinishResult_SyncIgnored(stage) ==
    IF stage \in {"ok", "sync_evdev"} THEN SUCCESS ELSE FAILURE

\* the value finish returns when it stops at `stage' ("ok": it ran through)
FinishResult(stage) == IF stage = "ok" THEN SUCCESS ELSE FAILURE

\* faulty finish: the results of find_H and test_H are not looked at
Tested_Unchecked(fh, T) ==
    [stage |-> "ok", steps |-> <<"find_H", "test_H">>, H |-> fh.H]

\* finish after find_H returned fh: [stage, steps, H], stage the check that
\* failed ("ok" when none did), steps the steps that ran, in order
Tested(fh, T) ==
    IF ~fh.ok THEN [stage |-> "find_H", steps |-> <<"find_H">>, H |-> fh.H]
    ELSE [stage |-> test_H(fh.H, T), steps |-> <<"find_H", "test_H">>, H |-> fh.H]

\* finish up to and including test_H
finish_compute(tup, prec, Hm) ==
    IF tup.num # NUM_POINTS
    THEN [stage |-> "not_enough", steps |-> <<>>, H |-> Hm]
    ELSE Tested(find_H(tup.tuple, prec, Hm), tup.tuple)

\* faulty finish: the driver files are written before the checks are looked at
finish_commit_PushFirst(c, zn, scr, drv, xp, po, so) ==
    LET sd == set_ebeam_calibration(drv, zn, c.H, po)
        sx == sync_evdev_calibration(xp, zn, scr, so)
        Out(stg, stp, d, x) ==
            [result |-> IF stg = "ok" THEN SUCCESS ELSE FAILURE, stage |-> stg,
             steps |-> c.steps \o stp, H |-> c.H, driver |-> d, xprop |-> x]
    IN  IF c.stage # "ok" THEN Out(c.stage, <<>>, sd.driver, xp)
        ELSE IF ~sd.ok THEN Out("set_ebeam", <<"set_ebeam">>, sd.driver, xp)
        ELSE IF ~sx.ok
        THEN Out("sync_evdev", <<"set_ebeam", "sync_evdev">>, sd.driver, sx.xprop)
        ELSE Out("ok", <<"set_ebeam", "sync_evdev">>, sd.driver, sx.xprop)

\* finish from the result c of its part up to test_H:
\* [result, stage, steps, H, driver, xprop]
finish_commit(c, zn, scr, drv, xp, po, so) ==
    LET sd == set_ebeam_calibration(drv, zn, c.H, po)
        sx == sync_evdev_calibration(xp, zn, scr, so)
        Out(stg, stp, d, x) ==
            [result |-> FinishResult(stg), stage |-> stg, steps |-> c.steps \o stp,
             H |-> c.H, driver |-> d, xprop |-> x]
    IN  IF c.stage # "ok" THEN Out(c.stage, <<>>, drv, xp)
        ELSE IF ~sd.ok THEN Out("set_ebeam", <<"set_ebeam">>, sd.driver, xp)
        ELSE IF ~sx.ok
        THEN Out("sync_evdev", <<"set_ebeam", "sync_evdev">>, sd.driver, sx.xprop)
        ELSE Out("ok", <<"set_ebeam", "sync_evdev">>, sd.driver, sx.xprop)

finish(tup, prec, Hm, zn, scr, drv, xp, po, so) ==
    finish_commit(finish_compute(tup, prec, Hm), zn, scr, drv, xp, po, so)

FinOf(f, st) == [result |-> f.result, stage |-> f.stage, steps |-> f.steps,
                 stale |-> st]

(***************************************************************************)
(* GuiCalibratorX11                                                        *)
(***************************************************************************)
\* faulty size test: the height is not compared
SameSize_WidthOnly(g, xs) == g.display_width = xs[1]

\* the test setup_zone makes before it returns early
SameSize(g, xs) == g.display_width = xs[1] /\ g.display_height = xs[2]

\* [gui, tuples, reset]: reset tells that the size differed
setup_zone(g, tup, xs) ==
    LET t == Targets(g.min_x, g.min_y, g.max_x, g.max_y)
    IN  IF SameSize(g, xs)
        THEN [gui |-> g, tuples |-> tup, reset |-> FALSE]
        ELSE [gui |-> [g EXCEPT !.display_width = xs[1], !.display_height = xs[2],
                                !.target_x = t.x, !.target_y = t.y],
              tuples |-> reset_tuples(tup), reset |-> TRUE]

redraw(g, tup, xs) == setup_zone(g, tup, xs)

draw_message(g, tup, xs, m) ==
    LET r == redraw(g, tup, xs)
    IN  [r EXCEPT !.gui.msg = m]

\* faulty end tests: done at the third click only, done one click late
AreWeDone_AtThree(tup) == tup.num = NUM_POINTS - 1

AreWeDone_Late(tup) == tup.num = NUM_POINTS + 1

\* faulty end test: done one click early
AreWeDone_Early(tup) == tup.num >= NUM_POINTS - 1

\* "Are we done yet?"
AreWeDone(tup) == tup.num = NUM_POINTS

\* Calibrator calls a handler makes when setup_zone found a new size
ResetCalls(r) == IF r.reset THEN <<"reset_tuples">> ELSE <<>>

\* the state once the Calibrator is constructed, for a precision of precs, a
\* driver whose calibrated flag is one of flags and X properties of xps
Constructed(precs, flags, xps) ==
    /\ precision \in precs
    /\ threshold_doubleclick \in Thresholds
    /\ tuples = [num |-> 0, tuple |-> [i \in 1..NUM_POINTS |-> NoTuple], spill |-> <<>>]
    /\ H = [i \in 1..9 |-> 0]
    /\ screen = <<ScreenW, ScreenH>>
    /\ \E z \in ZoneArgs : zone = Calibrator(z, screen)
    /\ gui = [display_width |-> -1, display_height |-> -1,
              min_x |-> 0, min_y |-> 0, max_x |-> 0, max_y |-> 0,
              target_x |-> <<0, 0, 0, 0>>, target_y |-> <<0, 0, 0, 0>>,
              raw_X |-> 0, raw_Y |-> 0, time_elapsed |-> 0, idle |-> 0, msg |-> "none"]
    /\ final_step = FALSE
    /\ is_running = FALSE
    /\ xsize = screen
    /\ resizes = 0
    /\ ncalls = 0
    /\ driver \in {[calibrated |-> c, params |-> [i \in 1..13 |-> 0]] : c \in flags}
    /\ xprop \in xps
    /\ pc = "start"
    /\ calls = <<>>
    /\ ret = NoRet
    /\ fin = NoFin
    /\ stale = FALSE
    /\ file = NoFile
    /\ io = NoIo
    /\ calc = NoCalc

Init == Constructed(GuiPrecisions, {0, 1}, XProps)

\* GuiCalibratorX11::make_instance: the constructor
MakeInstance ==
    /\ pc = "start"
    /\ \E canOpen \in BOOLEAN, so \in SyncOutcomes :
        LET g0 == [gui EXCEPT !.min_x = zone.min_x, !.min_y = zone.min_y,
                              !.max_x = zone.max_x, !.max_y = zone.max_y]
            sz == setup_zone(g0, tuples, xsize)
            re == reset_ebeam_calibration(driver, canOpen)
            rx == reset_evdev_calibration(xprop, so)
        IN  /\ gui' = sz.gui
            /\ tuples' = sz.tuples
            /\ is_running' = TRUE
            /\ driver' = re.driver
            /\ xprop' = IF re.ok THEN rx.xprop ELSE xprop
            /\ pc' = IF re.ok /\ rx.ok THEN "paused" ELSE "aborted"
            /\ calls' = ResetCalls(sz) \o <<"reset_ebeam_calibration">> \o (IF re.ok THEN <<"reset_evdev_calibration">> ELSE <<>>)
    /\ ret' = NoRet
    /\ stale' = FALSE
    /\ UNCHANGED <<file, io, calc, precision, threshold_doubleclick, H, zone, screen, final_step,
                   xsize, resizes, ncalls, fin>>

\* clock_tick with the test of the timeout changed
clock_tick_AtLimit(g, run) ==
    LET te == g.time_elapsed + time_step
    IN  [gui |-> [g EXCEPT !.time_elapsed = te, !.idle = @ + 1],
         is_running |-> IF te >= max_time THEN FALSE ELSE run]

clock_tick_Wraps(g, run) ==
    LET te == g.time_elapsed + time_step
    IN  [gui |-> [g EXCEPT !.time_elapsed = IF te > max_time THEN 0 ELSE te,
                           !.idle = IF te > max_time THEN 0 ELSE @ + 1],
         is_running |-> run]

\* GuiCalibratorX11::clock_tick; idle is history: the timer ticks since the
\* construction or since the last button event handled before the final step
clock_tick(g, run) ==
    LET te == g.time_elapsed + time_step
    IN  [gui |-> [g EXCEPT !.time_elapsed = te, !.idle = @ + 1],
         is_running |-> IF te > max_time THEN FALSE ELSE run]

\* SIGALRM while main waits in pause(): timer_signal up to its event loop,
\* that is clock_tick
TimerSignal ==
    /\ pc = "paused"
    /\ is_running
    /\ LET t == clock_tick(gui, is_running)
       IN  /\ gui' = t.gui
           /\ is_running' = t.is_running
    /\ pc' = "events"
    /\ calls' = <<>>
    /\ ret' = NoRet
    /\ UNCHANGED <<file, io, calc, precision, threshold_doubleclick, tuples, H, zone, screen,
                   final_step, xsize, resizes, ncalls, driver, xprop, fin, stale>>

\* an Expose event taken from the queue
OnExpose ==
    /\ pc = "events"
    /\ LET r == redraw(gui, tuples, xsize)
       IN  /\ gui' = r.gui
           /\ tuples' = r.tuples
           /\ stale' = IF r.reset THEN FALSE ELSE stale
           /\ calls' = ResetCalls(r)
    /\ ret' = NoRet
    /\ UNCHANGED <<file, io, calc, precision, threshold_doubleclick, H, zone, screen, final_step,
                   is_running, xsize, resizes, ncalls, driver, xprop, pc, fin>>

\* an XI_RawMotion event taken from the queue
OnMotion ==
    /\ pc = "events"
    /\ \E p \in DevPoints, both \in BOOLEAN :
          gui' = IF ~final_step /\ both
                 THEN [gui EXCEPT !.raw_X = p[1], !.raw_Y = p[2]]
                 ELSE gui
    /\ calls' = <<>>
    /\ ret' = NoRet
    /\ UNCHANGED <<file, io, calc, precision, threshold_doubleclick, tuples, H, zone, screen,
                   final_step, is_running, xsize, resizes, ncalls, driver, xprop, pc, fin,
                   stale>>

\* on_button_event from "final_step = true" on, f being what finish does
FinalStep(f, g, tup) ==
    LET r == draw_message(g, tup, xsize,
                          IF f.result = SUCCESS THEN "complete" ELSE "failed")
    IN  /\ final_step' = TRUE
        /\ H' = f.H
        /\ driver' = f.driver
        /\ xprop' = f.xprop
        /\ fin' = FinOf(f, stale)
        /\ gui' = r.gui
        /\ tuples' = r.tuples
        /\ stale' = IF r.reset THEN FALSE ELSE stale
        /\ calls' = <<"add_click", "finish">> \o ResetCalls(r)

\* an XI_RawButtonPress event taken from the queue
OnButton ==
    /\ pc = "events"
    /\ IF final_step
       THEN /\ is_running' = FALSE
            /\ calls' = <<>>
            /\ ret' = NoRet
            /\ UNCHANGED <<tuples, H, gui, final_step, driver, xprop, fin, stale>>
       ELSE LET i  == tuples.num
                g1 == [gui EXCEPT !.time_elapsed = 0, !.idle = 0, !.msg = "none"]
                a  == add_click(tuples, threshold_doubleclick, gui.raw_X, gui.raw_Y,
                                gui.target_x[i + 1], gui.target_y[i + 1])
            IN  /\ ret' = RetOf(tuples, a, gui.raw_X, gui.raw_Y,
                                gui.target_x[i + 1], gui.target_y[i + 1])
                /\ UNCHANGED is_running
                /\ IF ~a.ok
                   THEN LET r == draw_message(g1, a.tuples, xsize, "double_click")
                        IN  /\ gui' = r.gui
                            /\ tuples' = r.tuples
                            /\ stale' = IF r.reset THEN FALSE ELSE stale
                            /\ calls' = <<"add_click">> \o ResetCalls(r)
                            /\ UNCHANGED <<H, final_step, driver, xprop, fin>>
                   ELSE IF AreWeDone(a.tuples)
                   THEN LET c == finish_compute(a.tuples, precision, H)
                        IN  \E po \in PushOutcomes, so \in SyncOutcomes :
                              FinalStep(finish_commit(c, zone, screen, driver, xprop,
                                                      po, so), g1, a.tuples)
                   ELSE LET r == redraw(g1, a.tuples, xsize)
                        IN  /\ gui' = r.gui
                            /\ tuples' = r.tuples
                            /\ stale' = IF r.reset THEN FALSE ELSE stale
                            /\ calls' = <<"add_click">> \o ResetCalls(r)
                            /\ UNCHANGED <<H, final_step, driver, xprop, fin>>
    /\ UNCHANGED <<file, io, calc, precision, threshold_doubleclick, zone, screen, xsize, resizes, ncalls, pc>>

\* an XI_KeyPress event taken from the queue
OnKeyPress ==
    /\ pc = "events"
    /\ is_running' = FALSE
    /\ calls' = <<>>
    /\ ret' = NoRet
    /\ UNCHANGED <<file, io, calc, precision, threshold_doubleclick, tuples, H, zone, screen, gui,
                   final_step, xsize, resizes, ncalls, driver, xprop, pc, fin, stale>>

\* XPending() returns 0: timer_signal returns, main tests is_running
EndSignal ==
    /\ pc = "events"
    /\ pc' = IF is_running THEN "paused" ELSE "exited"
    /\ calls' = <<>>
    /\ ret' = NoRet
    /\ UNCHANGED <<file, io, calc, precision, threshold_doubleclick, tuples, H, zone, screen, gui,
                   final_step, is_running, xsize, resizes, ncalls, driver, xprop, fin, stale>>

\* the X server changes the size of the screen
GeometryChange ==
    /\ pc \in {"start", "paused", "events"}
    /\ resizes < MaxResizes
    /\ \E s \in Sizes \ {xsize} : xsize' = s
    /\ resizes' = resizes + 1
    /\ stale' = (stale \/ tuples.num > 0)
    /\ calls' = <<>>
    /\ ret' = NoRet
    /\ UNCHANGED <<file, io, calc, precision, threshold_doubleclick, tuples, H, zone, screen, gui,
                   final_step, is_running, ncalls, driver, xprop, pc, fin>>

\* the user lets at most MaxIdleTicks timer ticks pass between two clicks
Impatient == gui.time_elapsed < MaxIdleTicks * time_step

Next ==
    \/ MakeInstance
    \/ Impatient /\ TimerSignal
    \/ OnExpose
    \/ OnMotion
    \/ OnButton
    \/ OnKeyPress
    \/ EndSignal
    \/ GeometryChange

Spec == Init /\ [][Next]_vars

(***************************************************************************)
(* The GUI run with a user who may wait: the timer ticks until main leaves *)
(* its loop, and the pointer is moved to the corner next to click.         *)
(***************************************************************************)
Corners == <<<<0, 0>>, <<0, Far>>, <<Far, 0>>, <<Far, Far>>>>

FollowsTargets ==
    <<gui'.raw_X, gui'.raw_Y>> \in
        {<<gui.raw_X, gui.raw_Y>>,
         Corners[IF tuples.num < NUM_POINTS THEN tuples.num + 1 ELSE NUM_POINTS]}

InitTimer ==
    Constructed({MaxPrecision}, {0}, {[axis |-> <<>>, ctm |-> IdentityCTM]})

NextTimer ==
    \/ MakeInstance
    \/ TimerSignal
    \/ OnExpose
    \/ OnMotion /\ FollowsTargets
    \/ OnButton
    \/ OnKeyPress
    \/ EndSignal
    \/ GeometryChange

SpecTimer == InitTimer /\ [][NextTimer]_vars

\* main runs on, SIGALRM is delivered every time_step ms while main waits in
\* pause(), and the loop of timer_signal ends when the queue is empty
SpecTimerFair ==
    SpecTimer /\ WF_vars(MakeInstance) /\ WF_vars(TimerSignal) /\ WF_vars(EndSignal)

(***************************************************************************)
(* The Calibrator used through its public members, in any order            *)
(***************************************************************************)
\* add_click(X, Y, x, y) with the target of the slot as screen point
ApiAddClick ==
    /\ ncalls < MaxCalls
    /\ ncalls' = ncalls + 1
    /\ tuples.num < NUM_POINTS + MaxOverrun
    /\ \E p \in ApiPoints :
        LET t == Targets(zone.min_x, zone.min_y, zone.max_x, zone.max_y)
            k == (tuples.num % NUM_POINTS) + 1
            a == add_click(tuples, threshold_doubleclick, p[1], p[2], t.x[k], t.y[k])
        IN  /\ tuples' = a.tuples
            /\ ret' = RetOf(tuples, a, p[1], p[2], t.x[k], t.y[k])
            /\ IF a.ok /\ tuples.num >= NUM_POINTS
               THEN H' \in Overrun(H, TupleAt(a.tuples, tuples.num))
               ELSE H' = H
    /\ calls' = <<"add_click">>
    /\ UNCHANGED <<file, io, calc, precision, threshold_doubleclick, zone, screen, gui, final_step,
                   is_running, xsize, resizes, driver, xprop, pc, fin, stale>>

ApiResetTuples ==
    /\ ncalls < MaxCalls
    /\ ncalls' = ncalls + 1
    /\ tuples' = reset_tuples(tuples)
    /\ calls' = <<"reset_tuples">>
    /\ ret' = NoRet
    /\ UNCHANGED <<file, io, calc, precision, threshold_doubleclick, H, zone, screen, gui,
                   final_step, is_running, xsize, resizes, driver, xprop, pc, fin,
                   stale>>

\* the state after finish did f
Finished(f) ==
    /\ H' = f.H
    /\ driver' = f.driver
    /\ xprop' = f.xprop
    /\ fin' = FinOf(f, stale)

ApiFinish ==
    /\ ncalls < MaxCalls
    /\ ncalls' = ncalls + 1
    /\ LET c == finish_compute(tuples, precision, H)
       IN  \E po \in PushOutcomes, so \in SyncOutcomes :
              Finished(finish_commit(c, zone, screen, driver, xprop, po, so))
    /\ calls' = <<"finish">>
    /\ ret' = NoRet
    /\ UNCHANGED <<file, io, calc, precision, threshold_doubleclick, tuples, zone, screen, gui,
                   final_step, is_running, xsize, resizes, pc, stale>>

NextApi ==
    \/ ApiAddClick
    \/ ApiResetTuples
    \/ ApiFinish

InitApi == Constructed(Precisions, {0}, {[axis |-> <<>>, ctm |-> IdentityCTM]})

SpecApi == InitApi /\ [][NextApi]_vars

(***************************************************************************)
(* The numerical routines of find_H and test_H applied to given values     *)
(***************************************************************************)
\* the quantization of find_H applied to v = n / d and to -v
CalcQuantize ==
    \E n \in (-MaxNum)..MaxNum, d \in 1..MaxDen, p \in Precisions :
        calc' = [fn |-> "quantize", n |-> n, d |-> d, p |-> p,
                 out |-> Quantize(Rat(n, d), p),
                 neg |-> Quantize(Rat(-n, d), p)]

\* the rounded quotient of test_H for a numerator num and a denominator denom:
\* H = [0 0 num; 0 0 num; 0 0 denom]
CalcRound ==
    \E num \in (-MaxNum)..MaxNum, denom \in ((-MaxDen)..MaxDen) \ {0} :
        calc' = [fn |-> "round", num |-> num, denom |-> denom,
                 out |-> ReplayX(<<0, 0, num, 0, 0, num, 0, 0, denom>>, 0, 0)]

\* matrices and correspondences given to test_H: coefficients of both signs
ReplayMatrices ==
    {<<a, 0, c, 0, a, c, g, 0, s>> :
        a \in {-3, 2}, c \in {-5, 0, 7}, g \in {-1, 0, 1}, s \in {-2, 1, 3}}

ReplayTuples ==
    {[dev_X |-> X, dev_Y |-> X, scr_x |-> x, scr_y |-> x] :
        X \in {0, 2, 3}, x \in {-3, -2, 0, 2}}

\* test_H on the matrix Hm and four correspondences
CalcTestH ==
    \E Hm \in ReplayMatrices, t1 \in ReplayTuples, t2 \in ReplayTuples :
        calc' = [fn |-> "test_H", H |-> Hm, T |-> <<t1, t1, t2, t1>>,
                 out |-> test_H(Hm, <<t1, t1, t2, t1>>)]

\* screens whose targets are clicked exactly where they are drawn
IdentityScreens == {<<ScreenW, ScreenH>>, <<81, 81>>, <<100, 100>>}

IdentitySets ==
    {LET t == Targets(0, 0, s[1] - 1, s[2] - 1)
     IN  [i \in 1..NUM_POINTS |-> [dev_X |-> t.x[i], dev_Y |-> t.y[i],
                                   scr_x |-> t.x[i], scr_y |-> t.y[i]]] :
        s \in IdentityScreens}

\* device rectangles <<X0, X1, Y0, Y1>>, clicked in the order UL, LL, UR, LR
Rectangles == {<<0, 10, 0, 10>>, <<10, 30, 0, 20>>, <<0, 50, 0, 50>>}

\* scales <<numerator, denominator>> and offsets of the screen points
Scales == {<<4, 5>>, <<1, 1>>, <<2, 1>>, <<1, 2>>, <<-1, 1>>}
Offsets == {0, 3, 100}

\* the screen coordinate a * V + b
AffineImage(a, b, V) == TruncDiv(a[1] * V, a[2]) + b

AffineSet(r, a, b, c, d) ==
    LET P == <<<<r[1], r[3]>>, <<r[1], r[4]>>, <<r[2], r[3]>>, <<r[2], r[4]>>>>
    IN  [i \in 1..NUM_POINTS |->
            [dev_X |-> P[i][1], dev_Y |-> P[i][2],
             scr_x |-> AffineImage(a, b, P[i][1]),
             scr_y |-> AffineImage(c, d, P[i][2])]]

\* the cases whose screen points are pixels: whole and not negative
AffineCases ==
    {k \in [r : Rectangles, a : Scales, b : Offsets, c : Scales, d : Offsets] :
        /\ \A V \in {k.r[1], k.r[2]} :
              (k.a[1] * V) % k.a[2] = 0 /\ AffineImage(k.a, k.b, V) \in 0..MaxQuot
        /\ \A V \in {k.r[3], k.r[4]} :
              (k.c[1] * V) % k.c[2] = 0 /\ AffineImage(k.c, k.d, V) \in 0..MaxQuot}

\* what find_H and test_H give at the default precision for the set T
Finish12(kind, k, T, t) ==
    [fn |-> "finish", kind |-> kind, k |-> k, T |-> T, stage |-> t.stage, H |-> t.H]

CalcFinish ==
    \/ \E T \in IdentitySets :
          calc' = Finish12("identity", <<>>, T, TestedLL(find_H_LL(T, PRECISION), T))
    \/ \E k \in AffineCases :
          calc' = Finish12("affine", k, AffineSet(k.r, k.a, k.b, k.c, k.d),
                           TestedLL(find_H_LL(AffineSet(k.r, k.a, k.b, k.c, k.d),
                                              PRECISION),
                                    AffineSet(k.r, k.a, k.b, k.c, k.d)))

\* zones <<min_x, min_y, max_x, max_y>> given to setup_zone: extents that
\* are multiples of NUM_BLOCKS and extents that are not, a zone of one block
\* and a smaller one, and bounds given in the wrong order
TargetZones ==
    {<<100, 100, 899, 899>>, <<0, 0, ScreenW - 1, ScreenH - 1>>,
     <<0, 0, 1919, 1079>>, <<3, 5, 12, 20>>, <<1, 1, ScreenW - 2, ScreenH - 2>>,
     <<10, 20, 1033, 787>>, <<2, 2, 4, 4>>, <<12, 5, 3, 20>>}

\* the targets setup_zone computes for a zone
CalcTargets ==
    \E z \in TargetZones :
        calc' = [fn |-> "targets", zone |-> z, out |-> Targets(z[1], z[2], z[3], z[4])]

\* the values the expression (2 * (ha X + hb Y + hc) + div) / (2 * div) of
\* test_H goes through, div = hg X + hh Y + hi included, in the order C
\* computes them, as the integers they are
ReplayTerms(ha, hb, hc, hg, hh, hi, X, Y) ==
    LET div == LLAdd(LLAdd(LLMul(hg, X), LLMul(hh, Y)), hi)
        num == LLAdd(LLAdd(LLMul(ha, X), LLMul(hb, Y)), hc)
    IN  <<LLMul(hg, X), LLMul(hh, Y), LLAdd(LLMul(hg, X), LLMul(hh, Y)), div,
          LLMul(ha, X), LLMul(hb, Y), LLAdd(LLMul(ha, X), LLMul(hb, Y)), num,
          LLMul(num, 2), LLAdd(LLMul(num, 2), div), LLMul(div, 2)>>

\* 2^48 - 1, the largest coefficient calibrator.hpp calls safe
Coef48 == LLAdd(LLMul(LLInt(16777216), 16777216), LLInt(-1))

\* coefficients below 2^48 in magnitude, of both signs, and device samples
\* of 16 bits
WideCoefs == {LLZero, LLPow10(9), LLPow10(PRECISION), LLPow10(14), Coef48,
              LLMul(Coef48, -1)}
WideSamples == {0, 1, 32767, 65535}

\* the expression of test_H for coefficients and samples of these sizes, h9
\* being 10^p for a precision p of 9..14
CalcReplayWide ==
    \E a \in WideCoefs, c \in WideCoefs, g \in {LLZero, Coef48}, p \in {9, 14},
       X \in WideSamples, Y \in WideSamples :
        calc' = [fn |-> "replay_wide", H |-> <<a, a, c, g, g, LLPow10(p)>>,
                 X |-> X, Y |-> Y,
                 terms |-> ReplayTerms(a, a, c, g, g, LLPow10(p), X, Y)]

\* one routine is applied in a run; nothing else changes
CalcFrame ==
    /\ calc = NoCalc
    /\ UNCHANGED <<precision, threshold_doubleclick, tuples, H, zone, screen, gui,
                   final_step, is_running, xsize, resizes, ncalls, driver, xprop,
                   pc, calls, ret, fin, stale, file, io>>

NextCalc ==
    \/ CalcFrame /\ CalcQuantize
    \/ CalcFrame /\ CalcRound
    \/ CalcFrame /\ CalcTestH
    \/ CalcFrame /\ CalcFinish
    \/ CalcFrame /\ CalcTargets
    \/ CalcFrame /\ CalcReplayWide

InitCalc ==
    /\ Constructed({MaxPrecision}, {0}, {[axis |-> <<>>, ctm |-> IdentityCTM]})
    /\ threshold_doubleclick = THR_DOUBLECLICK
    /\ ~zone.zoned

SpecCalc == InitCalc /\ [][NextCalc]_vars

(***************************************************************************)
(* ebeam_state: the state file as text, fprintf and fscanf                 *)
(***************************************************************************)
\* a text is a sequence of characters, each a string of length 1
DigitChars == <<"0", "1", "2", "3", "4", "5", "6", "7", "8", "9">>

IsSpace(c) == c \in {"\n", " "}
IsDigit(c) == \E d \in 1..10 : DigitChars[d] = c
DigitOf(c) == (CHOOSE d \in 1..10 : DigitChars[d] = c) - 1

\* faulty %lld of fprintf: the sign is not printed
FormatLL_NoSign(w) ==
    IF w.dig = <<>> THEN <<"0">>
    ELSE [i \in 1..Len(w.dig) |-> DigitChars[w.dig[Len(w.dig) - i + 1] + 1]]

\* %lld of fprintf: the decimal digits, most significant first, after a '-'
\* for a negative value
FormatLL(w) ==
    IF w.dig = <<>> THEN <<"0">>
    ELSE (IF w.neg THEN <<"-">> ELSE <<>>)
         \o [i \in 1..Len(w.dig) |-> DigitChars[w.dig[Len(w.dig) - i + 1] + 1]]

\* %d of fprintf
FormatInt(n) == FormatLL(LLInt(n))

\* the index of the first character at or after i that is no white space,
\* Len(s) + 1 when there is none
RECURSIVE SkipSpace(_, _)
SkipSpace(s, i) ==
    IF i > Len(s) THEN i
    ELSE IF IsSpace(s[i]) THEN SkipSpace(s, i + 1) ELSE i

\* the index behind the run of non-space characters starting at i
RECURSIVE EndOfToken(_, _)
EndOfToken(s, i) ==
    IF i > Len(s) THEN i
    ELSE IF IsSpace(s[i]) THEN i ELSE EndOfToken(s, i + 1)

\* the index behind the run of digits starting at i
RECURSIVE EndOfDigits(_, _)
EndOfDigits(s, i) ==
    IF i > Len(s) THEN i
    ELSE IF IsDigit(s[i]) THEN EndOfDigits(s, i + 1) ELSE i

\* fscanf(fp, "%s\n", ..) from position i: ret is the return value of fscanf
\* (1, or -1 = EOF when the input ends before a character is found), str the
\* characters stored, next the position after the white space that follows
ScanString(s, i) ==
    LET j == SkipSpace(s, i)
        e == EndOfToken(s, j)
    IN  IF j > Len(s) THEN [ret |-> -1, str |-> <<>>, next |-> j]
        ELSE [ret |-> 1, str |-> SubSeq(s, j, e - 1), next |-> SkipSpace(s, e)]

\* faulty conversion: the sign is read and dropped
ScanNumber_SignLost(s, i) ==
    LET j == SkipSpace(s, i)
        k == IF j <= Len(s) /\ s[j] \in {"-", "+"} THEN j + 1 ELSE j
        e == EndOfDigits(s, k)
        mag == Trim([n \in 1..(e - k) |-> DigitOf(s[e - n])])
    IN  IF j > Len(s) THEN [ret |-> -1, val |-> LLZero, next |-> j]
        ELSE IF e = k THEN [ret |-> 0, val |-> LLZero, next |-> k]
        ELSE [ret |-> 1, val |-> [neg |-> FALSE, dig |-> mag], next |-> SkipSpace(s, e)]

\* one %d or %lld conversion followed by "\n", from position i: ret is 1
\* (a number was read), 0 (the next characters are not a number) or -1 (the
\* input ended first); val is the number
ScanNumber(s, i) ==
    LET j == SkipSpace(s, i)
        k == IF j <= Len(s) /\ s[j] \in {"-", "+"} THEN j + 1 ELSE j
        e == EndOfDigits(s, k)
        mag == Trim([n \in 1..(e - k) |-> DigitOf(s[e - n])])
    IN  IF j > Len(s) THEN [ret |-> -1, val |-> LLZero, next |-> j]
        ELSE IF e = k THEN [ret |-> 0, val |-> LLZero, next |-> k]
        ELSE [ret |-> 1, val |-> [neg |-> s[j] = "-" /\ mag # <<>>, dig |-> mag],
              next |-> SkipSpace(s, e)]

\* the int a %d conversion stores for the number w
RECURSIVE MagInt(_)
MagInt(ds) == IF ds = <<>> THEN 0 ELSE Head(ds) + 10 * MagInt(Tail(ds))

IntOf(w) == IF w.neg THEN -MagInt(w.dig) ELSE MagInt(w.dig)

\* the version string of the build
VERSION == <<"0", ".", "9">>

\* the tokens, each followed by a newline
RECURSIVE Lines(_)
Lines(toks) == IF toks = <<>> THEN <<>> ELSE Head(toks) \o <<"\n">> \o Lines(Tail(toks))

\* faulty save: the bounds written in the order of the driver's files
save_text_MinFirst(zn, Hm) ==
    Lines(<<VERSION, FormatInt(zn.min_x), FormatInt(zn.min_y),
            FormatInt(zn.max_x), FormatInt(zn.max_y)>>
          \o [i \in 1..9 |-> FormatLL(Hm[i])])

\* what the save part of do_calib_io prints to the file
save_text(zn, Hm) ==
    Lines(<<VERSION, FormatInt(zn.min_x), FormatInt(zn.max_x),
            FormatInt(zn.min_y), FormatInt(zn.max_y)>>
          \o [i \in 1..9 |-> FormatLL(Hm[i])])

\* what the environment lets get_ebeam_calibration do: "open": file number
\* `at' of the driver cannot be opened; "eof": file number `at' opens, and
\* reading it ends before a number (fscanf returns EOF)
GetOutcomes == {[kind |-> "ok", at |-> 0], [kind |-> "open", at |-> 1],
                [kind |-> "open", at |-> 10], [kind |-> "eof", at |-> 5],
                [kind |-> "eof", at |-> 13]}

\* the FILE handles get_ebeam_calibration leaves open: the loop over h1..h9
\* opens each file twice into the same fp and closes it once
LeakedHandles(g) ==
    Cardinality({i \in 5..13 : g.kind # "open" \/ i < g.at})

\* faulty get_ebeam_calibration: zoned is set from the bounds read
get_ebeam_calibration_Rezoned(zn, Hm, drv, g) ==
    LET Read(i) == CASE g.kind = "open" -> i < g.at
                     [] g.kind = "eof"  -> i # g.at
                     [] OTHER           -> TRUE
        z == [zn EXCEPT !.min_x = IF Read(1) THEN drv.params[1] ELSE @,
                        !.min_y = IF Read(2) THEN drv.params[2] ELSE @,
                        !.max_x = IF Read(3) THEN drv.params[3] ELSE @,
                        !.max_y = IF Read(4) THEN drv.params[4] ELSE @]
    IN  [ok |-> g.kind # "open", leaked |-> LeakedHandles(g),
         zone |-> [z EXCEPT !.zoned = ~(z.min_x = 0 /\ z.min_y = 0
                                          /\ z.max_x = ScreenW - 1
                                          /\ z.max_y = ScreenH - 1)],
         H |-> [i \in 1..9 |-> IF Read(i + 4) THEN drv.params[i + 4] ELSE Hm[i]]]

\* faulty get_ebeam_calibration: the file h9 is not read
get_ebeam_calibration_NoH9(zn, Hm, drv, g) ==
    LET Read(i) == CASE g.kind = "open" -> i < g.at
                     [] g.kind = "eof"  -> i # g.at
                     [] OTHER           -> TRUE
    IN  [ok |-> g.kind # "open", leaked |-> LeakedHandles(g),
         zone |-> [zn EXCEPT !.min_x = IF Read(1) THEN drv.params[1] ELSE @,
                             !.min_y = IF Read(2) THEN drv.params[2] ELSE @,
                             !.max_x = IF Read(3) THEN drv.params[3] ELSE @,
                             !.max_y = IF Read(4) THEN drv.params[4] ELSE @],
         H |-> [i \in 1..9 |-> IF Read(i + 4) /\ i < 9 THEN drv.params[i + 4]
                                ELSE Hm[i]]]

\* [ok, leaked, zone, H]: the driver's files read in the order min_x, min_y,
\* max_x, max_y, h1..h9 into the members, up to the first that cannot be
\* opened; the EOF of fscanf is not the 0 the code tests for, and the member
\* keeps its value
get_ebeam_calibration(zn, Hm, drv, g) ==
    LET Read(i) == CASE g.kind = "open" -> i < g.at
                     [] g.kind = "eof"  -> i # g.at
                     [] OTHER           -> TRUE
    IN  [ok |-> g.kind # "open", leaked |-> LeakedHandles(g),
         zone |-> [zn EXCEPT !.min_x = IF Read(1) THEN drv.params[1] ELSE @,
                             !.min_y = IF Read(2) THEN drv.params[2] ELSE @,
                             !.max_x = IF Read(3) THEN drv.params[3] ELSE @,
                             !.max_y = IF Read(4) THEN drv.params[4] ELSE @],
         H |-> [i \in 1..9 |-> IF Read(i + 4) THEN drv.params[i + 4] ELSE Hm[i]]]

\* the one element of a set of one element; the element is a value by then
Only(S) == CHOOSE x \in S : TRUE

\* fscanf(fp, "%d\n%d\n%d\n%d\n", ..): the conversions in order up to the
\* first that fails; ret is the number of values stored, or -1 (EOF) when the
\* input ends before the first
RECURSIVE ScanBounds(_, _, _)
ScanBounds(s, pos, vals) ==
    IF Len(vals) = 4 THEN [ret |-> 4, vals |-> vals, next |-> pos]
    ELSE Only({IF r.ret = 1 THEN ScanBounds(s, r.next, Append(vals, IntOf(r.val)))
               ELSE [ret |-> IF r.ret = -1 /\ vals = <<>> THEN -1 ELSE Len(vals),
                     vals |-> vals, next |-> r.next] :
               r \in {ScanNumber(s, pos)}})

\* the loop over H[i]: it stops with FAILURE only when fscanf returns 0; the
\* -1 of an ended input is not 0, and H[i] keeps its value
RECURSIVE ScanH(_, _, _, _)
ScanH(s, pos, i, Hm) ==
    IF i > 9 THEN [ok |-> TRUE, H |-> Hm]
    ELSE Only({IF r.ret = 0 THEN [ok |-> FALSE, H |-> Hm]
               ELSE ScanH(s, r.next, i + 1,
                          IF r.ret = 1 THEN [Hm EXCEPT ![i] = r.val] ELSE Hm) :
               r \in {ScanNumber(s, pos)}})

\* the tag read by %s does not fit char version[10] with its final 0
Overflows(s) == Len(ScanString(s, 1).str) > 9

\* the values fscanf stored in min_x, max_x, min_y, max_y
StoreBounds(zn, vals) ==
    [zn EXCEPT !.min_x = IF Len(vals) >= 1 THEN vals[1] ELSE @,
               !.max_x = IF Len(vals) >= 2 THEN vals[2] ELSE @,
               !.min_y = IF Len(vals) >= 3 THEN vals[3] ELSE @,
               !.max_y = IF Len(vals) >= 4 THEN vals[4] ELSE @]

\* faulty restore: zoned is left as the constructor set it
Rezoned_Kept(zn, scr) == zn

\* zoned as restore sets it
Rezoned(zn, scr) ==
    [zn EXCEPT !.zoned = ~(zn.min_x = 0 /\ zn.min_y = 0 /\ zn.max_x = scr[1] - 1
                             /\ zn.max_y = scr[2] - 1)]

\* restore from the H loop on
read_H(s, pos, zb, Hm, scr, warned) ==
    Only({IF ~h.ok THEN [stage |-> "H", warned |-> warned, zone |-> zb, H |-> h.H]
          ELSE [stage |-> "ok", warned |-> warned, zone |-> Rezoned(zb, scr),
                H |-> h.H] :
          h \in {ScanH(s, pos, 1, Hm)}})

\* restore from the fscanf of the bounds on
read_bounds(s, pos, zn, Hm, scr, warned) ==
    Only({IF b.ret # 4
          THEN [stage |-> "minmax", warned |-> warned,
                zone |-> StoreBounds(zn, b.vals), H |-> Hm]
          ELSE read_H(s, b.next, StoreBounds(zn, b.vals), Hm, scr, warned) :
          b \in {ScanBounds(s, pos, <<>>)}})

\* the reading part of restore: [stage, warned, zone, H]
restore_read(s, zn, Hm, scr) ==
    Only({IF v.ret # 1
          THEN [stage |-> "version", warned |-> FALSE, zone |-> zn, H |-> Hm]
          ELSE read_bounds(s, v.next, zn, Hm, scr, v.str # VERSION) :
          v \in {ScanString(s, 1)}})

\* the end of restore, from the values rd read: set_ebeam_calibration, then
\* sync_evdev_calibration
restore_push(rd, scr, f, drv, xp, env) ==
    LET Out(res, stg, d, x) ==
            [result |-> res, stage |-> stg, warned |-> rd.warned, zone |-> rd.zone,
             H |-> rd.H, file |-> f, driver |-> d, xprop |-> x, leaked |-> 0]
    IN  IF rd.stage # "ok" THEN Out(FAILURE, rd.stage, drv, xp)
        ELSE Only({IF ~sd.ok THEN Out(FAILURE, "set_ebeam", sd.driver, xp)
                   ELSE Only({IF ~sx.ok
                              THEN Out(FAILURE, "sync_evdev", sd.driver, sx.xprop)
                              ELSE Out(SUCCESS, "ok", sd.driver, sx.xprop) :
                              sx \in {sync_evdev_calibration(xp, rd.zone, scr, env.so)}}) :
                   sd \in {set_ebeam_calibration(drv, rd.zone, rd.H, env.po)}})

\* the restoring part of do_calib_io; env.smash: the write of a too long tag
\* behind version[] ends the process
restore_part(zn, Hm, scr, f, drv, xp, env) ==
    IF ~f.exists
    THEN [result |-> FAILURE, stage |-> "open_r", warned |-> FALSE, zone |-> zn,
          H |-> Hm, file |-> f, driver |-> drv, xprop |-> xp, leaked |-> 0]
    ELSE IF Overflows(f.text) /\ env.smash
    THEN [result |-> FAILURE, stage |-> "crashed", warned |-> FALSE, zone |-> zn,
          H |-> Hm, file |-> f, driver |-> drv, xprop |-> xp, leaked |-> 0]
    ELSE Only({restore_push(rd, scr, f, drv, xp, env) :
               rd \in {restore_read(f.text, zn, Hm, scr)}})

\* the saving part of do_calib_io: [ok, stage, zone, H, file, leaked]; the
\* file is opened for writing, and so emptied, before the driver is read
save_part(zn, Hm, f, drv, env) ==
    IF ~env.write
    THEN [ok |-> FALSE, stage |-> "open_w", zone |-> zn, H |-> Hm, file |-> f,
          leaked |-> 0]
    ELSE Only({IF ~g.ok
               THEN [ok |-> FALSE, stage |-> "get", zone |-> g.zone, H |-> g.H,
                     file |-> [exists |-> TRUE, text |-> <<>>], leaked |-> g.leaked]
               ELSE [ok |-> TRUE, stage |-> "ok", zone |-> g.zone, H |-> g.H,
                     file |-> [exists |-> TRUE, text |-> save_text(g.zone, g.H)],
                     leaked |-> g.leaked] :
               g \in {get_ebeam_calibration(zn, Hm, drv, env.get)}})

\* do_calib_io of a Calibrator with the members zn, Hm, for the options
\* --restore (hasIn) and --save (hasOut), both naming the state file f; env
\* is what the environment lets the calls do.
\* [result, stage, warned, zone, H, file, driver, xprop, leaked]
do_calib_io(hasIn, hasOut, zn, Hm, scr, f, drv, xp, env) ==
    LET Out(res, stg, z, h, fl, lk) ==
            [result |-> res, stage |-> stg, warned |-> FALSE, zone |-> z, H |-> h,
             file |-> fl, driver |-> drv, xprop |-> xp, leaked |-> lk]
    IN  IF ~hasIn /\ ~hasOut THEN Out(FAILURE, "nofile", zn, Hm, f, 0)
        ELSE IF ~hasOut THEN restore_part(zn, Hm, scr, f, drv, xp, env)
        ELSE Only({IF ~sv.ok
                   THEN Out(FAILURE, sv.stage, sv.zone, sv.H, sv.file, sv.leaked)
                   ELSE IF ~hasIn
                   THEN Out(SUCCESS, "ok", sv.zone, sv.H, sv.file, sv.leaked)
                   ELSE [restore_part(sv.zone, sv.H, scr, sv.file, drv, xp, env)
                            EXCEPT !.leaked = sv.leaked] :
                   sv \in {save_part(zn, Hm, f, drv, env)}})

(***************************************************************************)
(* ebeam_state: inputs                                                     *)
(***************************************************************************)
\* LLONG_MAX and LLONG_MIN
LLMax == [neg |-> FALSE, dig |-> <<7, 0, 8, 5, 7, 7, 4, 5, 8, 6, 3, 0, 2, 7, 3, 3, 2, 2, 9>>]
LLMin == [neg |-> TRUE, dig |-> <<8, 0, 8, 5, 7, 7, 4, 5, 8, 6, 3, 0, 2, 7, 3, 3, 2, 2, 9>>]

\* the values H can hold before anything is stored in it
GarbageH == {[i \in 1..9 |-> LLZero], [i \in 1..9 |-> LLInt(-7)]}

\* a matrix as a calibration at precision 12 leaves it, with coefficients of
\* both signs and of the largest size
SampleH == <<LLMul(LLPow10(PRECISION - 1), 8), LLZero, LLMul(LLPow10(PRECISION), -3),
             LLInt(-5), LLMul(LLPow10(PRECISION - 1), 8), LLPow10(PRECISION + 2),
             LLMin, LLMax, LLPow10(PRECISION)>>

\* the zone of a Calibrator constructed without --zone
FullZone == [zoned |-> FALSE, min_x |-> 0, min_y |-> 0, max_x |-> ScreenW - 1,
             max_y |-> ScreenH - 1]

\* bounds with min_x above max_x, as a state file can hold them
InvertedZone == [SampleZone EXCEPT !.min_x = ScreenW - 1, !.max_x = 1]

\* the matrix of a driver that was never calibrated
UnitH == <<LLInt(1), LLZero, LLZero, LLZero, LLInt(1), LLZero, LLZero, LLZero, LLInt(1)>>

\* the driver's files: never calibrated (unit matrix, full screen), or
\* calibrated with the sample values
IoDrivers ==
    {[calibrated |-> 0, params |-> <<0, 0, ScreenW - 1, ScreenH - 1>> \o UnitH],
     [calibrated |-> 1,
      params |-> <<SampleZone.min_x, SampleZone.min_y, SampleZone.max_x,
                   SampleZone.max_y>> \o SampleH]}

\* version tags of state files: of this build, of an older one, and one of
\* more than 9 characters
OldTag == <<"0", ".", "8">>
LongTag == <<"0", ".", "9", ".", "1", "-", "b", "e", "t", "a", "2">>
Tags == {VERSION, OldTag, LongTag}

\* the 14 tokens of a state file
FileTokens(tag, zn, Hm) ==
    <<tag, FormatInt(zn.min_x), FormatInt(zn.max_x), FormatInt(zn.min_y),
      FormatInt(zn.max_y)>> \o [i \in 1..9 |-> FormatLL(Hm[i])]

SampleTokens == FileTokens(VERSION, SampleZone, SampleH)

\* the state file before the first run: none; a complete file with each tag;
\* files cut after k tokens; files with a token that is no number, or with
\* letters after the last number; a file whose h9 is that of a calibration
\* with --precision 10; a file of a never calibrated driver without its tag;
\* the file saved from a never calibrated driver; a file of 14 tokens whose
\* min_x is above its max_x
StateFiles ==
    {NoFile}
    \cup {[exists |-> TRUE, text |-> Lines(FileTokens(t, SampleZone, SampleH))] :
             t \in Tags}
    \cup {[exists |-> TRUE, text |-> Lines(SubSeq(SampleTokens, 1, k))] :
             k \in {0, 1, 3, 5, 9, 13}}
    \cup {[exists |-> TRUE, text |-> Lines([SampleTokens EXCEPT ![k] = <<"x">>])] :
             k \in {2, 5, 6, 14}}
    \cup {[exists |-> TRUE, text |-> Lines([SampleTokens EXCEPT ![14] = <<"7", "x">>])],
          [exists |-> TRUE,
           text |-> Lines([SampleTokens EXCEPT ![14] = FormatLL(LLPow10(PRECISION - 2))])],
          [exists |-> TRUE,
           text |-> Lines(Tail(FileTokens(VERSION, Calibrator(<<0, 0, 0, 0>>,
                                                              <<ScreenW, ScreenH>>),
                                          UnitH)))],
          [exists |-> TRUE, text |-> Lines(FileTokens(VERSION, FullZone, UnitH))],
          [exists |-> TRUE, text |-> Lines(FileTokens(VERSION, InvertedZone, SampleH))]}

(***************************************************************************)
(* ebeam_state: main of main_cli.cpp                                       *)
(***************************************************************************)
\* the state at the exit of a run that ended with r
Exited(r, op, g) ==
    /\ zone' = r.zone
    /\ H' = r.H
    /\ file' = r.file
    /\ driver' = r.driver
    /\ xprop' = r.xprop
    /\ io' = [op |-> op, result |-> r.result, stage |-> r.stage, warned |-> r.warned,
              eof |-> IF g.kind = "eof" THEN g.at ELSE 0, leaked |-> r.leaked]

\* one run of ebeam_state: make_calibrator_cli constructs a Calibrator with
\* the precision PRECISION and no zone, then do_calib_io
CliRun ==
    /\ pc = "cli"
    /\ ncalls < MaxRuns
    /\ ncalls' = ncalls + 1
    /\ calls' = <<"do_calib_io">>
    /\ UNCHANGED <<calc, precision, threshold_doubleclick, tuples, screen, gui,
                   final_step, is_running, xsize, resizes, pc, ret, fin, stale>>

NoEnv == [write |-> TRUE, get |-> [kind |-> "ok", at |-> 0], smash |-> FALSE,
          po |-> [kind |-> "ok", at |-> 0], so |-> "ok"]

\* ebeam_state without --save and --restore
StateNoFile ==
    /\ CliRun
    /\ \E h0 \in GarbageH :
          Exited(do_calib_io(FALSE, FALSE, Calibrator(<<0, 0, 0, 0>>, screen), h0,
                             screen, file, driver, xprop, NoEnv), "none", NoEnv.get)

\* ebeam_state --save
StateSave ==
    /\ CliRun
    /\ \E h0 \in GarbageH, w \in BOOLEAN, g \in GetOutcomes :
          Exited(do_calib_io(FALSE, TRUE, Calibrator(<<0, 0, 0, 0>>, screen), h0,
                             screen, file, driver, xprop,
                             [NoEnv EXCEPT !.write = w, !.get = g]), "save", g)

\* ebeam_state --restore
StateRestore ==
    /\ CliRun
    /\ \E h0 \in GarbageH, sm \in BOOLEAN, po \in PushOutcomes, so \in SyncOutcomes :
          Exited(do_calib_io(TRUE, FALSE, Calibrator(<<0, 0, 0, 0>>, screen), h0,
                             screen, file, driver, xprop,
                             [NoEnv EXCEPT !.smash = sm, !.po = po, !.so = so]),
                 "restore", NoEnv.get)

\* what the environment lets the restoring part do after a save in the same
\* run
BothPush == {po \in PushOutcomes : po.kind \in {"ok", "opendir"}}
BothSync == {"ok", "no_axis_atom"}

\* ebeam_state --save --restore, both naming the same file
StateSaveRestore ==
    /\ CliRun
    /\ \E h0 \in GarbageH, w \in BOOLEAN, g \in GetOutcomes,
          po \in BothPush, so \in BothSync :
          Exited(do_calib_io(TRUE, TRUE, Calibrator(<<0, 0, 0, 0>>, screen), h0,
                             screen, file, driver, xprop,
                             [NoEnv EXCEPT !.write = w, !.get = g, !.po = po, !.so = so]),
                 "both", g)

NextIo ==
    \/ StateNoFile
    \/ StateSave
    \/ StateRestore
    \/ StateSaveRestore

InitIo ==
    /\ precision = PRECISION
    /\ threshold_doubleclick = THR_DOUBLECLICK
    /\ tuples = [num |-> 0, tuple |-> [i \in 1..NUM_POINTS |-> NoTuple], spill |-> <<>>]
    /\ H = [i \in 1..9 |-> LLZero]
    /\ screen = <<ScreenW, ScreenH>>
    /\ zone = Calibrator(<<0, 0, 0, 0>>, screen)
    /\ gui = [display_width |-> -1, display_height |-> -1,
              min_x |-> 0, min_y |-> 0, max_x |-> 0, max_y |-> 0,
              target_x |-> <<0, 0, 0, 0>>, target_y |-> <<0, 0, 0, 0>>,
              raw_X |-> 0, raw_Y |-> 0, time_elapsed |-> 0, idle |-> 0, msg |-> "none"]
    /\ final_step = FALSE
    /\ is_running = FALSE
    /\ xsize = screen
    /\ resizes = 0
    /\ ncalls = 0
    /\ driver \in IoDrivers
    /\ xprop \in XProps
    /\ pc = "cli"
    /\ calls = <<>>
    /\ ret = NoRet
    /\ fin = NoFin
    /\ stale = FALSE
    /\ file \in StateFiles
    /\ io = NoIo
    /\ calc = NoCalc

SpecIo == InitIo /\ [][NextIo]_vars

(***************************************************************************)
(* A Calibrator in either use: its members called by a caller, or          *)
(* do_calib_io called by ebeam_state                                       *)
(***************************************************************************)
NextTools ==
    \/ pc = "start" /\ NextApi
    \/ pc = "cli" /\ NextIo

InitTools == InitApi \/ InitIo

SpecTools == InitTools /\ [][NextTools]_vars
(***************************************************************************)
(* Properties                                                              *)
(***************************************************************************)
\* the last step called the Calibrator member m
CalledIn(cs, m) == \E i \in 1..Len(cs) : cs[i] = m

\* the driver's replay of Hm gives each tuple's screen point, with a non-zero
\* denominator
ReplayExact(Hm, T) ==
    \A p \in 1..NUM_POINTS :
        /\ ReplayDiv(Hm, T[p].dev_X, T[p].dev_Y) # 0
        /\ ReplayX(Hm, T[p].dev_X, T[p].dev_Y) = T[p].scr_x
        /\ ReplayY(Hm, T[p].dev_X, T[p].dev_Y) = T[p].scr_y

\* C1: whenever finish returns SUCCESS, the integer replay of the quantized H
\* on each of the 4 stored tuples has a non-zero denominator and gives exactly
\* the tuple's screen point.
C1_ReplayExact ==
    (CalledIn(calls, "finish") /\ fin.result = SUCCESS)
        => ReplayExact(H, tuples.tuple)

C1_Witness ==
    /\ CalledIn(calls, "finish")
    /\ fin.result = SUCCESS
    /\ tuples.num = NUM_POINTS
    /\ driver.calibrated = 1

\* (X, Y) is within t, on both axes, of one of the first tup.num stored clicks
NearStored(tup, t, X, Y) ==
    \E i \in 0..(tup.num - 1) :
        /\ Abs(X - TupleAt(tup, i).dev_X) <= t
        /\ Abs(Y - TupleAt(tup, i).dev_Y) <= t

\* C2: with a threshold t > 0, add_click returns FAILURE and leaves the count
\* and the tuples as they are if and only if the click is within t on both axes
\* of some stored tuple (any of them, not only the last); otherwise the tuple
\* is appended and the count grows by one.  With t = 16 and (0,0) stored, a
\* click at (15,15) is rejected and one at (17,17) is accepted.
C2_DoubleClick ==
    [][(ret'.op = "add_click" /\ threshold_doubleclick > 0) =>
        /\ IF NearStored(tuples, threshold_doubleclick, ret'.X, ret'.Y)
           THEN ret'.result = FAILURE /\ tuples' = tuples
           ELSE /\ ret'.result = SUCCESS
                /\ tuples'.num = tuples.num + 1
                /\ TupleAt(tuples', tuples.num) =
                       [dev_X |-> ret'.X, dev_Y |-> ret'.Y,
                        scr_x |-> ret'.x, scr_y |-> ret'.y]
                /\ \A i \in 0..(tuples.num - 1) :
                       TupleAt(tuples', i) = TupleAt(tuples, i)
        /\ (/\ threshold_doubleclick = 16
            /\ tuples.num = 1
            /\ tuples.tuple[1].dev_X = 0
            /\ tuples.tuple[1].dev_Y = 0) =>
               /\ (ret'.X = 15 /\ ret'.Y = 15) => ret'.result = FAILURE
               /\ (ret'.X = 17 /\ ret'.Y = 17) => ret'.result = SUCCESS
      ]_vars

\* a click 15 units off the first stored click is rejected although the last
\* stored click is far from it
C2_Witness ==
    /\ ret.op = "add_click"
    /\ ret.result = FAILURE
    /\ threshold_doubleclick = 16
    /\ ret.slot = 2
    /\ Abs(ret.X - tuples.tuple[1].dev_X) = 15
    /\ Abs(ret.Y - tuples.tuple[1].dev_Y) = 15
    /\ Abs(ret.X - tuples.tuple[2].dev_X) > 16

\* C3: after any sequence of add_click, reset_tuples and finish calls the
\* count is between 0 and NUM_POINTS, and nothing is stored behind the 4th
\* slot.
C3_CountBound ==
    /\ tuples.num \in 0..NUM_POINTS
    /\ tuples.spill = <<>>

\* the order of the steps of finish
FinishOrder == <<"find_H", "test_H", "set_ebeam", "sync_evdev">>

\* C4: in the GUI, finish is called in a step exactly when that step's
\* add_click was accepted and brought the count to 4; the steps of finish run
\* in the order find_H, test_H, set_ebeam_calibration, sync_evdev_calibration
\* and stop at the first that fails.
C4_FinishTrigger ==
    [][/\ CalledIn(calls', "finish") <=>
              (/\ ret'.op = "add_click"
               /\ ret'.result = SUCCESS
               /\ ret'.slot + 1 = NUM_POINTS)
       /\ CalledIn(calls', "finish") =>
              /\ Len(fin'.steps) \in 1..4
              /\ fin'.steps = SubSeq(FinishOrder, 1, Len(fin'.steps))
              /\ fin'.stage = "find_H" => Len(fin'.steps) = 1
              /\ fin'.stage \in {"div0", "mismatch"} => Len(fin'.steps) = 2
              /\ fin'.stage = "set_ebeam" => Len(fin'.steps) = 3
              /\ fin'.stage \in {"sync_evdev", "ok"} => Len(fin'.steps) = 4
      ]_vars

C4_Witness ==
    /\ CalledIn(calls, "finish")
    /\ ret.slot + 1 = NUM_POINTS
    /\ fin.stage = "mismatch"
    /\ fin.steps = <<"find_H", "test_H">>

\* C5: when find_H or test_H fails inside finish, that finish call writes no
\* driver parameter file, no calibrated flag and no X property.
C5_NoCommitOnFailure ==
    [][(CalledIn(calls', "finish") /\ fin'.stage \in {"find_H", "div0", "mismatch"})
           => (driver' = driver /\ xprop' = xprop)]_vars

C5_Witness ==
    /\ CalledIn(calls, "finish")
    /\ fin.stage = "div0"
    /\ fin.result = FAILURE
    /\ driver.calibrated = 0

\* the device points of T lie on one line
Collinear4(T) ==
    \A i, j, k \in 1..NUM_POINTS :
        (T[j].dev_X - T[i].dev_X) * (T[k].dev_Y - T[i].dev_Y)
            = (T[k].dev_X - T[i].dev_X) * (T[j].dev_Y - T[i].dev_Y)

\* two device points of T are the same point
Coincident(T) ==
    \E i, j \in 1..NUM_POINTS :
        i # j /\ T[i].dev_X = T[j].dev_X /\ T[i].dev_Y = T[j].dev_Y

SizeDiffers == gui.display_width # xsize[1] \/ gui.display_height # xsize[2]

\* the targets the GUI holds are those of its zone
TargetsOfZone(g) ==
    LET t == Targets(g.min_x, g.min_y, g.max_x, g.max_y)
    IN  g.target_x = t.x /\ g.target_y = t.y

\* C7: a handler that finds the reported width or height different from the
\* recorded one clears the correspondence set (the count becomes 0), records
\* the new size and recomputes the 4 targets.
C7_GeometryReset ==
    [][((MakeInstance \/ OnExpose \/ (OnButton /\ ~final_step)) /\ SizeDiffers)
           => /\ tuples'.num = 0
              /\ gui'.display_width = xsize[1]
              /\ gui'.display_height = xsize[2]
              /\ TargetsOfZone(gui')]_vars

\* clicks had been accepted and were discarded by a reset
C7_Witness ==
    /\ CalledIn(calls, "reset_tuples")
    /\ resizes > 0
    /\ gui.display_height = xsize[2]
    /\ tuples.num = 0
    /\ tuples.tuple[2] # NoTuple

\* C8 as stated: whenever the count is 0, also after finish has run, the next
\* button click is accepted as the first correspondence and does not end the
\* run.
C8_ClickAfterReset ==
    [][(OnButton /\ tuples.num = 0)
           => /\ ret'.op = "add_click"
              /\ ret'.result = SUCCESS
              /\ ret'.slot = 0
              /\ is_running' = is_running]_vars

\* C8, amended: a size change found by a handler sets the count to 0 from every
\* state, also after finish has run; the next button click is accepted as the
\* first correspondence only while finish has not run (final_step is false);
\* once finish has run a button click ends the run and stores nothing.
C8_ResetThenClick ==
    [][/\ ((OnExpose \/ (OnButton /\ ~final_step)) /\ SizeDiffers)
            => tuples'.num = 0
       /\ (OnButton /\ tuples.num = 0)
            => IF final_step
               THEN ~is_running' /\ tuples' = tuples /\ ret' = NoRet
               ELSE /\ ret'.op = "add_click"
                    /\ ret'.result = SUCCESS
                    /\ ret'.slot = 0
                    /\ is_running' = is_running
      ]_vars

\* after a reset that discarded clicks, a click was accepted as the first
\* correspondence of a new collection
C8_Witness ==
    /\ ret.op = "add_click"
    /\ ret.result = SUCCESS
    /\ ret.slot = 0
    /\ resizes > 0
    /\ tuples.num = 1
    /\ tuples.tuple[2] # NoTuple

\* C9: finish never runs on a correspondence set that holds a click accepted
\* before the latest change of the screen size.
C9_NoStaleFinish == ~(fin.stage # "none" /\ fin.stale)

\* the steps at which finish can fail
FailStages == {"find_H", "div0", "mismatch", "set_ebeam", "sync_evdev"}

\* C10 as stated: the value a failed finish returns tells its reason: it is
\* not the value finish returns when it fails for another reason.
C10_ReasonReturned ==
    (CalledIn(calls, "finish") /\ fin.stage \in FailStages)
        => \A s \in FailStages \ {fin.stage} : FinishResult(s) # fin.result

\* C10, amended: finish returns SUCCESS when all its steps succeeded and the
\* one value FAILURE whatever the step that failed.
C10_BooleanResult ==
    CalledIn(calls, "finish")
        => /\ fin.result \in {SUCCESS, FAILURE}
           /\ fin.result = SUCCESS <=> fin.stage = "ok"
           /\ fin.stage \in FailStages \cup {"not_enough"} => fin.result = FAILURE

C10_Witness ==
    /\ CalledIn(calls, "finish")
    /\ fin.stage = "sync_evdev"
    /\ fin.result = FAILURE
    /\ driver.calibrated = 1

\* q is n / d (d > 0) rounded to the nearest integer, halves away from zero
IsHalfAwayRound(q, n, d) ==
    /\ 2 * Abs(q * d - n) <= d
    /\ 2 * Abs(q * d - n) = d => Abs(q) * d > Abs(n)

\* C12: each solved coefficient v is quantized to v * 10^P rounded to the
\* nearest integer with halves away from zero, so that the quantization of -v
\* is the opposite of that of v.
C12_HalfAwayFromZero ==
    calc.fn = "quantize" =>
        /\ IsHalfAwayRound(calc.out, calc.n * Pow10(calc.p), calc.d)
        /\ calc.neg = -calc.out

\* a negative value at a tie: -5/2 is quantized to -3
C12_Witness ==
    /\ calc.fn = "quantize"
    /\ calc.n < 0
    /\ 2 * Abs(calc.out * calc.d - calc.n * Pow10(calc.p)) = calc.d
    /\ calc.out < 0
    /\ calc.neg = -calc.out

\* q is a / b with the fraction dropped (C division, toward zero)
IsTowardZero(q, a, b) ==
    /\ Abs(q) * Abs(b) <= Abs(a)
    /\ Abs(a) < (Abs(q) + 1) * Abs(b)
    /\ q # 0 => ((q > 0) <=> ((a > 0) = (b > 0)))

\* the replay of Hm reproduces the screen point of tuple t, the two quotients
\* being taken toward zero
ReplaysTo(Hm, t) ==
    LET denom == Hm[7] * t.dev_X + Hm[8] * t.dev_Y + Hm[9]
        nx == 2 * (Hm[1] * t.dev_X + Hm[2] * t.dev_Y + Hm[3]) + denom
        ny == 2 * (Hm[4] * t.dev_X + Hm[5] * t.dev_Y + Hm[6]) + denom
    IN  /\ denom # 0
        /\ IsTowardZero(t.scr_x, nx, 2 * denom)
        /\ IsTowardZero(t.scr_y, ny, 2 * denom)

\* C13: test_H computes for every stored tuple denom = h7 X + h8 Y + h9,
\* x' = (2 (h1 X + h2 Y + h3) + denom) / (2 denom) and the same for y', with
\* the division truncating toward zero, and succeeds exactly when every
\* (x', y') is the stored screen point.
C13_ReplayFormula ==
    calc.fn = "test_H" =>
        (calc.out = "ok" <=> \A p \in 1..NUM_POINTS : ReplaysTo(calc.H, calc.T[p]))

\* test_H passes on a point whose quotient is negative and not an integer:
\* truncation and floor differ there
C13_Witness ==
    /\ calc.fn = "test_H"
    /\ calc.out = "ok"
    /\ \E p \in 1..NUM_POINTS :
          LET t == calc.T[p]
              denom == calc.H[7] * t.dev_X + calc.H[8] * t.dev_Y + calc.H[9]
              nx == 2 * (calc.H[1] * t.dev_X + calc.H[2] * t.dev_Y + calc.H[3]) + denom
          IN  /\ (nx < 0) # (denom < 0)
              /\ nx # 0
              /\ t.scr_x * 2 * denom # nx

\* C14 as stated: for numerators and non-zero denominators of both signs the
\* quotient (2 num + denom) / (2 denom) is num / denom rounded to the nearest
\* integer.
C14_NearestInteger ==
    calc.fn = "round" =>
        2 * Abs(calc.out * calc.denom - calc.num) <= Abs(calc.denom)

\* C14, amended: the quotient is (int)(num/denom + 0.5): the nearest integer,
\* halves upward, when num / denom >= -1/2; below -1/2 it is the least integer
\* that is >= num/denom + 1/2, which is not the nearest one unless num/denom
\* is a half.
C14_RoundsAboveMinusHalf ==
    calc.fn = "round" =>
        LET D == Abs(calc.denom)
            N == IF calc.denom < 0 THEN -calc.num ELSE calc.num
            q == calc.out
        IN  IF 2 * N >= -D
            THEN /\ 2 * Abs(q * D - N) <= D
                 /\ 2 * Abs(q * D - N) = D => q * D > N
            ELSE /\ 2 * D * (q - 1) < 2 * N + D
                 /\ 2 * N + D <= 2 * D * q

\* -4/3 gives 0, not -1: a quotient below -1/2 is not rounded to the nearest
C14_Witness ==
    /\ calc.fn = "round"
    /\ calc.num = -4
    /\ calc.denom = 3
    /\ calc.out = 0

\* 10^12 as a long long
E12 == [neg |-> FALSE, dig |-> <<0, 0, 0, 0, 0, 0, 0, 0, 0, 0, 0, 0, 1>>]

Scaled12(v) ==
    IF v[1] = 0 THEN LLZero
    ELSE [neg |-> v[1] < 0,
          dig |-> <<0, 0, 0, 0, 0, 0, 0, 0, 0, 0, 0>> \o Digits((Abs(v[1]) * 10) \div v[2])]

\* C16: when the screen points are x = a X + b, y = c Y + d of the corners of
\* a device rectangle, find_H at precision 12 gives h7 = h8 = 0 and
\* h2 = h4 = 0 exactly, h1 = a 10^12, h3 = b 10^12, h5 = c 10^12,
\* h6 = d 10^12, h9 = 10^12, and test_H passes.
C16_AffineCase ==
    (calc.fn = "finish" /\ calc.kind = "affine") =>
        /\ calc.stage = "ok"
        /\ calc.H = <<Scaled12(calc.k.a), LLZero, Scaled12(<<calc.k.b, 1>>),
                       LLZero, Scaled12(calc.k.c), Scaled12(<<calc.k.d, 1>>),
                       LLZero, LLZero, E12>>

\* a = c = 0.8, b = d = 100
C16_Witness ==
    /\ calc.fn = "finish"
    /\ calc.kind = "affine"
    /\ calc.k.a = <<4, 5>> /\ calc.k.c = <<4, 5>>
    /\ calc.k.b = 100 /\ calc.k.d = 100
    /\ calc.stage = "ok"
    /\ calc.H[7] = LLZero /\ calc.H[8] = LLZero
    /\ calc.H[3] = [neg |-> FALSE, dig |-> <<0, 0, 0, 0, 0, 0, 0, 0, 0, 0, 0, 0, 0, 0, 1>>]


(***************************************************************************)
(* The state file of ebeam_state (SpecIo)                                  *)
(***************************************************************************)
\* the tokens of a text: its runs of characters other than white space
RECURSIVE WordsFrom(_, _)
WordsFrom(s, i) ==
    IF SkipSpace(s, i) > Len(s) THEN <<>>
    ELSE <<SubSeq(s, SkipSpace(s, i), EndOfToken(s, SkipSpace(s, i)) - 1)>>
         \o WordsFrom(s, EndOfToken(s, SkipSpace(s, i)))

Words(s) == WordsFrom(s, 1)

\* tok is the decimal text of a number: digits, after a '-' when negative
IsDecimal(tok) ==
    LET body == IF tok # <<>> /\ Head(tok) = "-" THEN Tail(tok) ELSE tok
    IN  body # <<>> /\ \A i \in 1..Len(body) : IsDigit(body[i])

\* tok is the decimal text of the number w
Denotes(tok, w) ==
    LET body == IF tok # <<>> /\ Head(tok) = "-" THEN Tail(tok) ELSE tok
    IN  /\ IsDecimal(tok)
        /\ w.neg = (Head(tok) = "-")
        /\ IF w.dig = <<>> THEN body = <<"0">>
           ELSE /\ Len(body) = Len(w.dig)
                /\ \A i \in 1..Len(body) : DigitOf(body[i]) = w.dig[Len(body) - i + 1]

\* 14 tokens, the last 13 of them numbers
WellFormed(L) == Len(L) = 14 /\ \A k \in 2..14 : IsDecimal(L[k])

\* the tokens L after the tag are min_x, max_x, min_y, max_y, h1..h9 of zn, Hm
TokensAre(L, zn, Hm) ==
    /\ Len(L) = 14
    /\ Denotes(L[2], LLInt(zn.min_x))
    /\ Denotes(L[3], LLInt(zn.max_x))
    /\ Denotes(L[4], LLInt(zn.min_y))
    /\ Denotes(L[5], LLInt(zn.max_y))
    /\ \A i \in 1..9 : Denotes(L[5 + i], Hm[i])

\* restore got as far as the calls that push the values read
ReadOk(stage) == stage \in {"ok", "set_ebeam", "sync_evdev"}

\* the text with the tag t in the place of its first token
WithTag(text, t) == t \o SubSeq(text, EndOfToken(text, 1), Len(text))

\* the tags that fit char version[10]
ShortTags == {t \in Tags : Len(t) < 10}

\* the zone bounds and the matrix the driver d holds
DriverZone(d) == [min_x |-> d.params[1], min_y |-> d.params[2],
                  max_x |-> d.params[3], max_y |-> d.params[4]]
DriverH(d) == SubSeq(d.params, 5, 13)

SameBounds(z, b) ==
    z.min_x = b.min_x /\ z.max_x = b.max_x /\ z.min_y = b.min_y /\ z.max_y = b.max_y

C18_FileLayout ==
    [][/\ (io'.op = "save" /\ io'.result = SUCCESS /\ ncalls' = ncalls + 1)
          => /\ file'.exists
             /\ file'.text = Lines(Words(file'.text))
             /\ Len(Words(file'.text)) = 14
             /\ Words(file'.text)[1] = VERSION
             /\ TokensAre(Words(file'.text), zone', H')
       /\ (io'.op = "restore" /\ ReadOk(io'.stage) /\ ncalls' = ncalls + 1
              /\ WellFormed(Words(file.text)))
          => TokensAre(Words(file.text), zone', H')]_vars

\* the calibrated driver has been saved: the file starts with the tag, then
\* the X bounds 1 and ScreenW - 2 before the Y bounds
C18_Witness ==
    /\ io.op = "save"
    /\ io.result = SUCCESS
    /\ H = SampleH
    /\ SubSeq(Words(file.text), 1, 5)
           = <<VERSION, FormatInt(1), FormatInt(ScreenW - 2), FormatInt(2),
               FormatInt(ScreenH - 3)>>
    /\ SampleZone.min_y # SampleZone.max_x

\* C19: restore of a file that lacks one of its 14 tokens, or in which one of
\* the 13 tokens after the tag is no number, returns FAILURE and leaves the
\* driver's files and the X properties as they were
C19_MalformedRejected ==
    [][(io'.op = "restore" /\ ncalls' = ncalls + 1 /\ file.exists
           /\ ~WellFormed(Words(file.text)))
       => (io'.result = FAILURE /\ driver' = driver /\ xprop' = xprop)]_vars

\* C20: restore of a file of 14 tokens, the last 13 of them numbers, reads
\* the same whatever the tag is: it gets to the calls that push the values,
\* and the members hold the numbers of the file
C20_TagIgnored ==
    [][(io'.op = "restore" /\ ncalls' = ncalls + 1 /\ file.exists
           /\ WellFormed(Words(file.text)))
       => (ReadOk(io'.stage) /\ TokensAre(Words(file.text), zone', H'))]_vars

(***************************************************************************)
(* H[8] in either use of the Calibrator (SpecTools)                        *)
(***************************************************************************)
\* C11 as stated: after a successful finish, after get_ebeam_calibration and
\* after a restore from a file, H[8] is 10^precision
C11_ScaleEverywhere ==
    /\ (CalledIn(calls, "finish") /\ fin.result = SUCCESS) => H[9] = Pow10(precision)
    /\ (io.op = "save" /\ io.result = SUCCESS) => H[9] = LLPow10(precision)
    /\ (io.op = "restore" /\ ReadOk(io.stage)) => H[9] = LLPow10(precision)

\* C11: after a successful finish H[8] is 10^precision; after
\* get_ebeam_calibration it is the value read from the driver's h9 file, and after a
\* restore from a file of 14 tokens, the last 13 of them numbers, it is the
\* number of the last token, whatever the precision of the Calibrator
C11_ScaleSource ==
    /\ (CalledIn(calls, "finish") /\ fin.result = SUCCESS) => H[9] = Pow10(precision)
    /\ (io.op = "save" /\ io.result = SUCCESS /\ io.eof # 13)
           => H[9] = driver.params[13]
    /\ (io.op = "restore" /\ ReadOk(io.stage) /\ WellFormed(Words(file.text)))
           => Denotes(Words(file.text)[14], H[9])

\* a file whose h9 is 10^10 has been restored by ebeam_state, whose
\* Calibrator has the precision 12
C11_Witness ==
    /\ io.op = "restore"
    /\ io.result = SUCCESS
    /\ precision = PRECISION
    /\ WellFormed(Words(file.text))
    /\ H[9] = LLPow10(PRECISION - 2)
    /\ driver.params[13] = LLPow10(PRECISION - 2)

(***************************************************************************)
(* The zone of a Calibrator and what ebeam_state leaves behind (SpecIo)    *)
(***************************************************************************)
\* the bounds of z are those of the whole screen scr
FullScreen(z, scr) ==
    z.min_x = 0 /\ z.min_y = 0 /\ z.max_x = scr[1] - 1 /\ z.max_y = scr[2] - 1

\* C21: when restore has read the file, zoned is false if and only if the
\* bounds read are 0, 0, screen_width - 1, screen_height - 1, and true
\* otherwise; the flag is set before the values are pushed: a restore that
\* succeeds with zoned true has set the X matrix of that zone
C21_ZonedRederived ==
    [][(io'.op \in {"restore", "both"} /\ ncalls' = ncalls + 1 /\ ReadOk(io'.stage))
       => /\ zone'.zoned = ~FullScreen(zone', screen)
          /\ (io'.stage = "ok" /\ zone'.zoned)
                 => xprop'.ctm = compute_XCTM(zone', screen)]_vars

\* the file of the sample zone has been restored by a Calibrator constructed
\* without a zone: zoned is true and the X matrix is that of the zone
C21_Witness ==
    /\ io.op = "restore"
    /\ io.result = SUCCESS
    /\ SameBounds(zone, SampleZone)
    /\ zone.zoned
    /\ xprop.ctm = compute_XCTM(SampleZone, screen)
    /\ xprop.ctm # IdentityCTM

\* C22 as stated: in every state zoned is false exactly when the bounds are
\* those of the full screen
C22_ZonedIffRestricted == zone.zoned = ~FullScreen(zone, screen)

\* C22: zoned is false exactly when the Calibrator was constructed with the
\* four zone arguments 0, its bounds then being those of the full screen, or
\* when a restore read the bounds of the full screen; get_ebeam_calibration,
\* and a save with it, replaces the bounds and leaves zoned as the constructor
\* of ebeam_state set it, false
C22_ZonedSource ==
    /\ pc # "cli" => \E z \in ZoneArgs :
                         /\ zone = Calibrator(z, screen)
                         /\ zone.zoned = (z # <<0, 0, 0, 0>>)
                         /\ ~zone.zoned => FullScreen(zone, screen)
    /\ io.op = "none" /\ pc = "cli" => ~zone.zoned /\ FullScreen(zone, screen)
    /\ (io.op \in {"restore", "both"} /\ ReadOk(io.stage))
           => zone.zoned = ~FullScreen(zone, screen)
    /\ io.op = "save" => ~zone.zoned
    /\ (io.op = "save" /\ io.result = SUCCESS /\ io.eof = 0)
           => SameBounds(zone, DriverZone(driver))

\* the driver calibrated for the sample zone has been saved: the bounds are
\* those of the zone and zoned is false
C22_Witness ==
    /\ io.op = "save"
    /\ io.result = SUCCESS
    /\ SameBounds(zone, SampleZone)
    /\ ~FullScreen(zone, screen)
    /\ ~zone.zoned

\* C23: in every state the bounds of the zone are ordered: min_x <= max_x
\* and min_y <= max_y
C23_BoundsOrdered == zone.min_x <= zone.max_x /\ zone.min_y <= zone.max_y

\* C24: a save in which a file of the driver gave no value returns FAILURE
\* and writes no calibration value; the file of a save that returns SUCCESS
\* holds the bounds and the 9 coefficients of the driver, none of them a
\* value H held before it was set
C24_SaveNeedsData ==
    [][(io'.op = "save" /\ ncalls' = ncalls + 1)
       => /\ (io'.stage = "get" \/ io'.eof # 0)
                 => (io'.result = FAILURE /\ Words(file'.text) \in {<<>>, Words(file.text)})
          /\ io'.result = SUCCESS
                 => TokensAre(Words(file'.text), DriverZone(driver), DriverH(driver))]_vars

\* C25: a save that fails leaves the file with the content it had before the
\* call; the file changes only to a text of 14 tokens
C25_SaveAtomic ==
    [][(io'.op \in {"save", "both"} /\ ncalls' = ncalls + 1)
       => /\ io'.stage \in {"open_w", "get"} => file' = file
          /\ file' # file => Len(Words(file'.text)) = 14]_vars

\* C26: after a restore that succeeded, and so after a successful
\* sync_evdev_calibration, the Coordinate Transformation Matrix of the
\* device is the matrix of the zone when zoned is true and the identity when
\* zoned is false, whatever it was before
C26_MatrixFollowsZone ==
    (io.op \in {"restore", "both"} /\ io.result = SUCCESS)
        => xprop.ctm = IF zone.zoned THEN compute_XCTM(zone, screen) ELSE IdentityCTM

(***************************************************************************)
(* The targets of setup_zone (SpecCalc)                                    *)
(***************************************************************************)
\* the quotient of n by NUM_BLOCKS as C's integer division gives it
BlockOf(n) == IF n >= 0 THEN n \div NUM_BLOCKS ELSE -((-n) \div NUM_BLOCKS)

\* C27: with dx = (max_x - min_x + 1) / 8 and dy = (max_y - min_y + 1) / 8 in
\* integer division, the targets of a zone are UL = (min_x + dx, min_y + dy),
\* LL = (min_x + dx, max_y - dy), UR = (max_x - dx, min_y + dy) and
\* LR = (max_x - dx, max_y - dy); the zone 100..899 gives dx = dy = 100
C27_Targets ==
    calc.fn = "targets" =>
        LET z == calc.zone
            dx == BlockOf(z[3] - z[1] + 1)
            dy == BlockOf(z[4] - z[2] + 1)
            at(i) == <<calc.out.x[i + 1], calc.out.y[i + 1]>>
        IN  /\ at(UL) = <<z[1] + dx, z[2] + dy>>
            /\ at(LL) = <<z[1] + dx, z[4] - dy>>
            /\ at(UR) = <<z[3] - dx, z[2] + dy>>
            /\ at(LR) = <<z[3] - dx, z[4] - dy>>
            /\ z = <<100, 100, 899, 899>> => dx = 100 /\ dy = 100 /\ at(UL) = <<200, 200>>

\* the targets of the zone 100..899 have been computed: 200 and 799
C27_Witness ==
    /\ calc.fn = "targets"
    /\ calc.zone = <<100, 100, 899, 899>>
    /\ calc.out.x = <<200, 200, 799, 799>>
    /\ calc.out.y = <<200, 799, 200, 799>>

(***************************************************************************)
(* The clicks of a GUI run (Spec)                                          *)
(***************************************************************************)
\* the target of index k (UL, LL, UR, LR) of the zone z
TargetOf(z, k) ==
    LET dx == BlockOf(z.max_x - z.min_x + 1)
        dy == BlockOf(z.max_y - z.min_y + 1)
    IN  <<IF k \in {UL, LL} THEN z.min_x + dx ELSE z.max_x - dx,
          IF k \in {UL, UR} THEN z.min_y + dy ELSE z.max_y - dy>>

\* C28: in every state of a GUI run the k-th correspondence stored, k below
\* the count, holds the screen coordinates of the k-th target in the order
\* UL, LL, UR, LR; and a click that is stored goes to the slot of the count
\* with the target of that index
C28_TargetOrder ==
    /\ \A k \in 0..(NUM_POINTS - 1) :
          k < tuples.num
              => /\ tuples.tuple[k + 1].scr_x = gui.target_x[k + 1]
                 /\ tuples.tuple[k + 1].scr_y = gui.target_y[k + 1]
                 /\ <<tuples.tuple[k + 1].scr_x, tuples.tuple[k + 1].scr_y>>
                        = TargetOf(zone, k)
    /\ (ret.op = "add_click" /\ ret.result = SUCCESS)
           => <<ret.x, ret.y>> = TargetOf(zone, ret.slot)

\* three clicks are stored after the window changed its size, and a fourth
\* click has just been rejected as a double click
C28_Witness ==
    /\ tuples.num = 3
    /\ resizes > 0
    /\ ret.op = "add_click"
    /\ ret.result = FAILURE
    /\ zone.zoned
    /\ <<tuples.tuple[3].scr_x, tuples.tuple[3].scr_y>> = TargetOf(zone, UR)
    /\ TargetOf(zone, UR) # TargetOf(zone, LL)

\* finish has run and failed
FinishFailed == final_step /\ fin.stage # "none" /\ fin.result = FAILURE

\* C30 as stated: a rejected double click leaves the run going and the count
\* as it was, so that the same target is prompted again; after finish failed
\* no step calls add_click or finish again
C30_SameTargetAgain ==
    [][/\ (OnButton /\ ~final_step /\ ret'.result = FAILURE)
            => /\ is_running' = is_running
               /\ ~final_step'
               /\ tuples'.num = tuples.num
       /\ FinishFailed
            => /\ fin' = fin
               /\ final_step'
               /\ ~CalledIn(calls', "finish") /\ ~CalledIn(calls', "add_click")
               /\ tuples'.num <= tuples.num
      ]_vars

\* C30: a rejected double click leaves the run going, calls no finish and
\* stores nothing; the count is as it was and the same target is prompted
\* again, unless the handler found a new window size, which sets the count to
\* 0; after finish failed no step calls add_click or finish again, and a
\* button click ends the run
C30_OnlyDebounceRetried ==
    [][/\ (OnButton /\ ~final_step /\ ret'.result = FAILURE)
            => /\ is_running' = is_running
               /\ ~final_step'
               /\ fin' = fin
               /\ tuples'.tuple = tuples.tuple
               /\ tuples'.num = IF SizeDiffers THEN 0 ELSE tuples.num
       /\ FinishFailed
            => /\ fin' = fin
               /\ final_step'
               /\ ~CalledIn(calls', "finish") /\ ~CalledIn(calls', "add_click")
               /\ tuples'.num <= tuples.num
               /\ OnButton => ~is_running' /\ tuples' = tuples
      ]_vars

\* a click has just been rejected as a double click with two clicks stored:
\* the run goes on and finish has not run
C30_Witness ==
    /\ ret.op = "add_click"
    /\ ret.result = FAILURE
    /\ ret.slot = 2
    /\ tuples.num = 2
    /\ is_running
    /\ ~final_step
    /\ fin = NoFin

\* C29: every file an operation of the Calibrator opened is closed when the
\* operation returns: a run of do_calib_io leaves no handle open
C29_AllClosed == io.leaked = 0

(***************************************************************************)
(* The width of the replay arithmetic (SpecCalc)                           *)
(***************************************************************************)
\* v is a value of a signed 64-bit integer
FitsS64(v) == IF v.neg THEN ~MagLess(LLMin.dig, v.dig) ELSE ~MagLess(LLMax.dig, v.dig)

\* C31: with every coefficient below 2^48 in magnitude, h9 = 10^P for P in
\* 9..14, and device samples of 16 bits, every value the replay formula goes
\* through (the products h X and h Y, their sums, 2 * numerator + div and
\* 2 * div) is a value of a signed 64-bit integer
C31_NoOverflow ==
    (/\ calc.fn = "replay_wide"
     /\ \A i \in 1..6 : MagLess(calc.H[i].dig, LLAdd(Coef48, LLInt(1)).dig)
     /\ calc.X \in 0..65535 /\ calc.Y \in 0..65535)
        => \A i \in 1..Len(calc.terms) : FitsS64(calc.terms[i])

(***************************************************************************)
(* add_click without the double-click detection (SpecApi)                  *)
(***************************************************************************)
\* C32: with the threshold 0 add_click accepts every click, also one at the
\* device coordinates of a click already stored, and the count grows by 1
\* each time
C32_ThresholdOff ==
    [][(ApiAddClick /\ threshold_doubleclick = 0)
       => /\ ret'.result = SUCCESS
          /\ tuples'.num = tuples.num + 1
          /\ TupleAt(tuples', tuples.num).dev_X = ret'.X
          /\ TupleAt(tuples', tuples.num).dev_Y = ret'.Y]_vars

\* with the threshold 0 a second click at the device coordinates of the
\* first has been accepted
C32_Witness ==
    /\ threshold_doubleclick = 0
    /\ ret.op = "add_click"
    /\ ret.result = SUCCESS
    /\ ret.slot = 1
    /\ tuples.num = 2
    /\ tuples.tuple[1].dev_X = tuples.tuple[2].dev_X
    /\ tuples.tuple[1].dev_Y = tuples.tuple[2].dev_Y

(***************************************************************************)
(* The driver's files (SpecTools)                                          *)
(***************************************************************************)
\* the 13 parameter files of d hold the bounds of z and the matrix Hm
ParamsAre(d, z, Hm) == \A i \in 1..13 : d.params[i] = ParamValue(z, Hm, i)

Started == pc \notin {"start", "aborted"}

\* C34: clicks are collected only once both resets succeeded; a run whose
\* reset failed collects none and calls no finish; and from the resets until
\* a finish gets past set_ebeam_calibration the driver has calibrated = 0
\* and the X properties are the reset ones, so that every click is collected
\* with both calibrations off
C34_ResetBeforeClicks ==
    /\ (tuples.num > 0 \/ ret.op = "add_click" \/ fin # NoFin) => Started
    /\ pc = "aborted" => tuples.num = 0 /\ ~final_step
    /\ (Started /\ fin.stage \notin {"sync_evdev", "ok"})
           => /\ driver.calibrated = 0
              /\ xprop = [axis |-> <<>>, ctm |-> IdentityCTM]
    /\ (Started /\ ~final_step) => fin = NoFin

\* three clicks are collected, the driver is not calibrated and the X
\* properties are the reset ones
C34_Witness ==
    /\ Started
    /\ tuples.num = 3
    /\ ~final_step
    /\ driver.calibrated = 0
    /\ xprop = [axis |-> <<>>, ctm |-> IdentityCTM]

\* C35: when finish has failed, for whatever reason, and the window shows
\* "Calibration failed.", the driver's calibrated flag is still 0.
C35_FailedLeavesDisabled ==
    (final_step /\ fin.stage # "none" /\ fin.result = FAILURE) => driver.calibrated = 0

\* C36: once is_running is false, no step adds a click to the Calibrator or
\* invokes finish, whatever the order of the events pending in the tick.
C36_AbortIsFinal ==
    [][(pc = "events" /\ ~is_running) => \A i \in DOMAIN calls' : calls'[i] \notin {"add_click", "finish"}]_vars

\* C37: the elapsed time is 100 ms times the number of timer ticks since
\* the construction or the last button event handled before the final step,
\* and a tick sets is_running to false exactly when it is the 151st such tick.
C37_TimeoutAtTick151 ==
    [][/\ gui'.time_elapsed = 100 * gui'.idle
       /\ (pc = "paused" /\ pc' = "events")
              => /\ gui'.idle = gui.idle + 1
                 /\ is_running' = FALSE <=> gui'.idle = 151
       /\ (pc = "events" /\ ret'.op = "add_click") => gui'.idle = 0]_vars

C37_Witness ==
    /\ ~is_running /\ pc = "events" /\ gui.time_elapsed = 15100 /\ gui.idle = 151
    /\ tuples.num = 2 /\ ret.op = "none"

\* C38: with timer ticks delivered fairly, a run in which button events stop
\* arriving leaves every state of the started GUI with is_running true for one
\* with is_running false, before and after finish, whatever its result.
C38_Terminates ==
    (<>[][~OnButton]_vars) => ((Started /\ is_running) ~> ~is_running)

C38_Witness ==
    /\ pc = "exited" /\ ~is_running /\ final_step /\ fin.result = SUCCESS
    /\ gui.idle = 151

\* C39: final_step turns true in the step that accepts the 4th click and in
\* no other, with every result of finish, and stays true; while it is true
\* no step calls add_click or finish or changes the raw coordinates, the
\* driver, X or the matrix, and a button press sets is_running to false.
C39_FinalStepLatch ==
    [][/\ (~final_step /\ final_step')
              <=> (ret'.op = "add_click" /\ ret'.result = SUCCESS /\ ret'.slot = NUM_POINTS - 1)
       /\ final_step => final_step'
       /\ final_step
              => /\ \A i \in DOMAIN calls' : calls'[i] \notin {"add_click", "finish"}
                 /\ gui'.raw_X = gui.raw_X /\ gui'.raw_Y = gui.raw_Y
                 /\ <<H', driver', xprop', fin'>> = <<H, driver, xprop, fin>>
       /\ (final_step /\ OnButton) => ~is_running']_vars

C39_Witness ==
    /\ final_step /\ ~is_running /\ fin.result = FAILURE /\ fin.stage = "find_H"
    /\ tuples.num = NUM_POINTS /\ ret.op = "none"

\* C40: while final_step is false at most 3 clicks are stored, so target[count]
\* and the targets 0..count drawn by redraw exist; the count is never above 4.
C40_CountBelowFour ==
    /\ tuples.num \in 0..NUM_POINTS
    /\ ~final_step => tuples.num <= NUM_POINTS - 1
    /\ ~final_step => tuples.num + 1 \in DOMAIN gui.target_x \cap DOMAIN gui.target_y

C40_Witness ==
    /\ final_step /\ tuples.num = NUM_POINTS /\ is_running /\ pc = "paused"
    /\ fin.result = SUCCESS
====
